---- MODULE Spec2Model ----
(***************************************************************************)
(* AbsoluteTouchEx (atdll.cpp): the in-process shim that turns Windows     *)
(* Precision Touchpad HID reports into absolute raw mouse input.           *)
(*                                                                         *)
(* The model follows atdll.cpp function by function.  Process-wide state   *)
(* is the g_* variables, thread-local state the t_* variables (one value   *)
(* per UI thread).  The operating system is modelled by osWndProc (the     *)
(* GWLP_WNDPROC slot of every window), calFile (atcalibration.conf) and    *)
(* the inputs of the actions (messages, raw input, HID reports, failures   *)
(* of OS calls).  `out' records what the last operation did as seen from   *)
(* outside: its arguments, its return value and the call it made into the  *)
(* host's window procedure.                                                *)
(***************************************************************************)
EXTENDS Integers, Sequences, FiniteSets, TLC

VARIABLES
    pc,                  \* DllMain life cycle of the shim
    detours,             \* whether the five API interceptions are attached
    osWndProc,           \* OS: window -> procedure in its GWLP_WNDPROC slot
    g_originalWndProcs,  \* atdll.cpp:150
    g_devices,           \* atdll.cpp:153
    g_enabled,           \* atdll.cpp:156
    g_inCalibrationMode, \* atdll.cpp:159
    g_lastDevice,        \* atdll.cpp:162
    t_calibrationArea,   \* atdll.cpp:168 (per thread)
    t_injectedInput,     \* atdll.cpp:171 (per thread)
    t_primaryContactID,  \* atdll.cpp:174 (per thread)
    calFile,             \* OS: contents of atcalibration.conf
    hostKnows,           \* procedure pointers the host has obtained so far
    created,             \* per window: the procedure it was created with
    believed,            \* per window: the procedure the host installed last
    restored,            \* AT_Uninitialize: windows already restored by the loop
    lastSpliced,         \* per thread: the most recent WM_INPUT forwarded with the sentinel
    seq,                 \* per thread: progress through the report sequence PrimarySeq
    saved,               \* the rectangle the file holds since the last completed Save
    lastPrimary,         \* per thread and device: the primary id of its last forwarded report
    gdi,                 \* per thread: where it is inside AT_GetDeviceInfo and its caller
    session,             \* per device: the points reported in the calibration session in progress
    out                  \* the last operation, as observed from outside

vars == <<pc, detours, osWndProc, g_originalWndProcs, g_devices, g_enabled,
          g_inCalibrationMode, g_lastDevice, t_calibrationArea, t_injectedInput,
          t_primaryContactID, calFile, hostKnows, created, believed, restored,
          lastSpliced, seq, saved, lastPrimary, gdi, session, out>>

----------------------------------------------------------------------------
(* 32-bit signed arithmetic (LONG), computed on 16-bit halves.             *)

LONG_MAX == 2147483647
LONG_MIN == -LONG_MAX - 1
Half == 65536

\* The signed value of a 16-bit pattern placed in the upper half of a LONG.
Hi16(h) == IF h % Half >= 32768 THEN (h % Half) - Half ELSE h % Half

\* a + b and a - b in LONG, wrapping as the MSVC build does.
Add32(a, b) ==
    LET lo == (a % Half) + (b % Half)
        hi == (a \div Half) + (b \div Half) + (lo \div Half)
    IN  Hi16(hi) * Half + (lo % Half)

Sub32(a, b) ==
    LET lo == (a % Half) - (b % Half)
        hi == (a \div Half) - (b \div Half) + (lo \div Half)
    IN  Hi16(hi) * Half + (lo % Half)

\* a << 16 in LONG: the low half of a becomes the high half.
Shl16(a) == Hi16(a % Half) * Half

\* a / b raises the integer-divide hardware exception (b = 0, LONG_MIN / -1).
DivFault(a, b) == b = 0 \/ (a = LONG_MIN /\ b = -1)

\* a / b in LONG, truncating towards zero (for operands that do not fault).
Div32(a, b) ==
    IF b = LONG_MIN THEN (IF a = LONG_MIN THEN 1 ELSE 0)
    ELSE IF b < 0 THEN
        LET q == a \div (-b)   \* floor(a / |b|)
        IN  IF a < 0 /\ a % (-b) # 0 THEN -(q + 1) ELSE -q
    ELSE
        LET q == a \div b
        IN  IF a < 0 /\ a % b # 0 THEN q + 1 ELSE q

\* Min that always gives its second argument.
MinSecond(a, b) == b
Min(a, b) == IF a < b THEN a ELSE b
Max(a, b) == IF a > b THEN a ELSE b

MkRect(l, t, r, b) == [left |-> l, top |-> t, right |-> r, bottom |-> b]
MkPoint(x, y) == [x |-> x, y |-> y]

----------------------------------------------------------------------------
(* AT_TouchpadToScreen, atdll.cpp:433-455.                                 *)

\* AT_TouchpadToScreen with the width and height taken as right - left and
\* bottom - top.
AT_TouchpadToScreenExclusive(touchpadRect, touchpadPoint) ==
    LET tpX == Max(touchpadRect.left, Min(touchpadRect.right, touchpadPoint.x))
        tpY == Max(touchpadRect.top, Min(touchpadRect.bottom, touchpadPoint.y))
        tpDeltaX == Sub32(tpX, touchpadRect.left)
        tpDeltaY == Sub32(tpY, touchpadRect.top)
        tpWidth == Sub32(touchpadRect.right, touchpadRect.left)
        tpHeight == Sub32(touchpadRect.bottom, touchpadRect.top)
    IN  IF DivFault(Shl16(tpDeltaX), tpWidth) \/ DivFault(Shl16(tpDeltaY), tpHeight)
        THEN [fault |-> TRUE, x |-> 0, y |-> 0]
        ELSE [fault |-> FALSE,
              x |-> Div32(Shl16(tpDeltaX), tpWidth),
              y |-> Div32(Shl16(tpDeltaY), tpHeight)]

AT_TouchpadToScreen(touchpadRect, touchpadPoint) ==
    LET tpX == Max(touchpadRect.left, Min(touchpadRect.right, touchpadPoint.x))
        tpY == Max(touchpadRect.top, Min(touchpadRect.bottom, touchpadPoint.y))
        tpDeltaX == Sub32(tpX, touchpadRect.left)
        tpDeltaY == Sub32(tpY, touchpadRect.top)
        tpWidth == Sub32(Add32(touchpadRect.right, 1), touchpadRect.left)
        tpHeight == Sub32(Add32(touchpadRect.bottom, 1), touchpadRect.top)
    IN  IF DivFault(Shl16(tpDeltaX), tpWidth) \/ DivFault(Shl16(tpDeltaY), tpHeight)
        THEN [fault |-> TRUE, x |-> 0, y |-> 0]
        ELSE [fault |-> FALSE,
              x |-> Div32(Shl16(tpDeltaX), tpWidth),
              y |-> Div32(Shl16(tpDeltaY), tpHeight)]

----------------------------------------------------------------------------
(* The environment: threads, windows, devices and their HID descriptors.    *)

Threads == {"T1", "T2"}
\* Window handles are 1..MaxWindows; NULL is the handle of no window.
MaxWindows == 2
Hwnds == 1..MaxWindows
NULL == 0
\* The UI thread that created a window receives its messages: window 1 is
\* T1's, the others are T2's.
Owner(h) == IF h = 1 THEN "T1" ELSE "T2"

Shim == "AT_WndProcHook"        \* the shim's own window procedure
HostProcs == {"P1", "P2"}       \* window procedures of the host
Procs == HostProcs \cup {Shim}
NoWindow == "no window"

nullptr == "nullptr"            \* the null device HANDLE
Touchpads == {"D1", "D2", "D3", "D4", "DB"} \* HID touchpads attached to the system
Links == {0, 1, 2, 3}           \* link collections of the descriptors

VCap(page, usage, link, pmin, pmax, isRange, isAbs) ==
    [UsagePage |-> page, Usage |-> usage, LinkCollection |-> link,
     PhysicalMin |-> pmin, PhysicalMax |-> pmax,
     IsRange |-> isRange, IsAbsolute |-> isAbs]
BCap(page, usage, link) ==
    [UsagePage |-> page, Usage |-> usage, LinkCollection |-> link]

\* What HidP_GetValueCaps reports for each touchpad.
\*   D1: contact count on link 0, two complete contact slots (links 1, 2).
\*   D2: one complete slot (link 1); link 2 has no tip switch; a ranged and
\*       a relative capability that the parser must skip.
\*   D3: contact count on link 0, one complete contact slot (link 1) of
\*       touch area {0, 0, 1000, 500}.
\*   D4: contact count on link 0, three complete contact slots (links 1,
\*       2, 3), declared slot after slot.
\*   DB: no contact-count usage.
ValueCaps(d) ==
    CASE d = "D1" ->
           << VCap("DIGITIZER", "CONTACT_COUNT", 0, 0, 5, FALSE, TRUE),
              VCap("DIGITIZER", "CONTACT_ID", 1, 0, 0, FALSE, TRUE),
              VCap("GENERIC", "X", 1, 0, 1000, FALSE, TRUE),
              VCap("GENERIC", "Y", 1, 0, 500, FALSE, TRUE),
              VCap("DIGITIZER", "CONTACT_ID", 2, 0, 0, FALSE, TRUE),
              VCap("GENERIC", "X", 2, 0, 1000, FALSE, TRUE),
              VCap("GENERIC", "Y", 2, 0, 500, FALSE, TRUE) >>
      [] d = "D2" ->
           << VCap("GENERIC", "X", 1, 0, 1000, FALSE, TRUE),
              VCap("GENERIC", "Y", 1, 0, 1000, FALSE, TRUE),
              VCap("DIGITIZER", "CONTACT_ID", 1, 0, 0, FALSE, TRUE),
              VCap("GENERIC", "X", 2, 0, 1000, FALSE, TRUE),
              VCap("GENERIC", "Y", 2, 0, 1000, FALSE, TRUE),
              VCap("DIGITIZER", "CONTACT_ID", 2, 0, 0, FALSE, TRUE),
              VCap("GENERIC", "X", 0, 5, 7, TRUE, TRUE),
              VCap("GENERIC", "Y", 0, 5, 7, FALSE, FALSE),
              VCap("DIGITIZER", "CONTACT_COUNT", 0, 0, 5, FALSE, TRUE) >>
      [] d = "D3" ->
           << VCap("DIGITIZER", "CONTACT_COUNT", 0, 0, 5, FALSE, TRUE),
              VCap("DIGITIZER", "CONTACT_ID", 1, 0, 0, FALSE, TRUE),
              VCap("GENERIC", "X", 1, 0, 1000, FALSE, TRUE),
              VCap("GENERIC", "Y", 1, 0, 500, FALSE, TRUE) >>
      [] d = "D4" ->
           << VCap("DIGITIZER", "CONTACT_ID", 1, 0, 0, FALSE, TRUE),
              VCap("GENERIC", "X", 1, 0, 1000, FALSE, TRUE),
              VCap("GENERIC", "Y", 1, 0, 500, FALSE, TRUE),
              VCap("DIGITIZER", "CONTACT_ID", 2, 0, 0, FALSE, TRUE),
              VCap("GENERIC", "X", 2, 0, 1000, FALSE, TRUE),
              VCap("GENERIC", "Y", 2, 0, 500, FALSE, TRUE),
              VCap("DIGITIZER", "CONTACT_ID", 3, 0, 0, FALSE, TRUE),
              VCap("GENERIC", "X", 3, 0, 1000, FALSE, TRUE),
              VCap("GENERIC", "Y", 3, 0, 500, FALSE, TRUE),
              VCap("DIGITIZER", "CONTACT_COUNT", 0, 0, 5, FALSE, TRUE) >>
      [] OTHER ->
           << VCap("DIGITIZER", "CONTACT_ID", 1, 0, 0, FALSE, TRUE),
              VCap("GENERIC", "X", 1, 0, 1000, FALSE, TRUE),
              VCap("GENERIC", "Y", 1, 0, 500, FALSE, TRUE) >>

\* What HidP_GetButtonCaps reports for each touchpad.
ButtonCaps(d) ==
    CASE d = "D1" -> << BCap("DIGITIZER", "TIP_SWITCH", 1),
                        BCap("BUTTON", "BUTTON_1", 0),
                        BCap("DIGITIZER", "TIP_SWITCH", 2) >>
      [] d = "D4" -> << BCap("DIGITIZER", "TIP_SWITCH", 1),
                        BCap("DIGITIZER", "TIP_SWITCH", 2),
                        BCap("DIGITIZER", "TIP_SWITCH", 3),
                        BCap("BUTTON", "BUTTON_1", 0) >>
      [] OTHER    -> << BCap("DIGITIZER", "TIP_SWITCH", 1) >>

----------------------------------------------------------------------------
(* AT_GetDeviceInfo, atdll.cpp:460-538.                                     *)

\* at_contact_info_tmp, atdll.cpp:472-479.  touchArea is uninitialised until
\* X and Y capabilities are seen; it is read only when all four flags are set.
ContactInfoTmp ==
    [hasContactID |-> FALSE, hasTip |-> FALSE, hasX |-> FALSE, hasY |-> FALSE,
     touchArea |-> MkRect(0, 0, 0, 0)]

\* contacts[link] of the std::unordered_map: inserts a default element.
Slot(contacts, link) ==
    IF link \in DOMAIN contacts THEN contacts[link] ELSE ContactInfoTmp

\* std::unordered_map: the empty map, and m[k] = v.
EmptyMap == [x \in {} |-> 0]
Put(f, k, v) == [x \in DOMAIN f \cup {k} |-> IF x = k THEN v ELSE f[x]]

\* The loop over the value capabilities, atdll.cpp:485-507.
\* st = [contacts, hasCount, linkContactCount]
RECURSIVE ParseValueCaps(_, _, _)
ParseValueCaps(caps, i, st) ==
    IF i > Len(caps) THEN st
    ELSE
      LET cap == caps[i]
          c == Slot(st.contacts, cap.LinkCollection)
          next ==
            IF cap.IsRange \/ ~cap.IsAbsolute THEN st
            ELSE IF cap.UsagePage = "GENERIC" /\ cap.Usage = "X" THEN
              [st EXCEPT !.contacts = Put(@, cap.LinkCollection,
                  [c EXCEPT !.touchArea.left = cap.PhysicalMin,
                            !.touchArea.right = cap.PhysicalMax,
                            !.hasX = TRUE])]
            ELSE IF cap.UsagePage = "GENERIC" /\ cap.Usage = "Y" THEN
              [st EXCEPT !.contacts = Put(@, cap.LinkCollection,
                  [c EXCEPT !.touchArea.top = cap.PhysicalMin,
                            !.touchArea.bottom = cap.PhysicalMax,
                            !.hasY = TRUE])]
            ELSE IF cap.UsagePage = "DIGITIZER" /\ cap.Usage = "CONTACT_COUNT" THEN
              [st EXCEPT !.hasCount = TRUE, !.linkContactCount = cap.LinkCollection]
            ELSE IF cap.UsagePage = "DIGITIZER" /\ cap.Usage = "CONTACT_ID" THEN
              [st EXCEPT !.contacts = Put(@, cap.LinkCollection,
                  [c EXCEPT !.hasContactID = TRUE])]
            ELSE st
      IN  ParseValueCaps(caps, i + 1, next)

\* The loop over the button capabilities, atdll.cpp:509-515.
RECURSIVE ParseButtonCaps(_, _, _)
ParseButtonCaps(caps, i, st) ==
    IF i > Len(caps) THEN st
    ELSE
      LET cap == caps[i]
          c == Slot(st.contacts, cap.LinkCollection)
          next ==
            IF cap.UsagePage = "DIGITIZER" /\ cap.Usage = "TIP_SWITCH" THEN
              [st EXCEPT !.contacts = Put(@, cap.LinkCollection,
                  [c EXCEPT !.hasTip = TRUE])]
            ELSE st
      IN  ParseButtonCaps(caps, i + 1, next)

ParseCaps(d) ==
    ParseButtonCaps(ButtonCaps(d), 1,
        ParseValueCaps(ValueCaps(d), 1,
            [contacts |-> EmptyMap, hasCount |-> FALSE, linkContactCount |-> 0]))

\* Qualifying without the test of the tip switch.
QualifyingNoTip(contacts) ==
    {l \in DOMAIN contacts :
        contacts[l].hasContactID /\ contacts[l].hasX /\ contacts[l].hasY}

\* The link collections that become contact slots, atdll.cpp:525.
Qualifying(contacts) ==
    {l \in DOMAIN contacts :
        contacts[l].hasContactID /\ contacts[l].hasTip /\ contacts[l].hasX /\ contacts[l].hasY}

\* The orders in which `for (kvp : contacts)' can visit the elements of the
\* std::unordered_map: the iteration order is unspecified.
Orders(S) ==
    {o \in [1..Cardinality(S) -> S] : \A i, j \in 1..Cardinality(S) : i # j => o[i] # o[j]}

\* Exceptions of the code.
NoExc == "none"
\* CaughtExc without the handler of hid_error.
CaughtExcNoHid == {"win32_error", "runtime_error"}
CaughtExc == {"win32_error", "hid_error", "runtime_error"}   \* atdll.cpp:914-920

\* Points where an OS or HID call of the WM_INPUT path can fail.
\*   header    GetRawInputData(RID_HEADER), atdll.cpp:221   win32_error
\*   preparsed GetRawInputDeviceInfoW, atdll.cpp:277-283     win32_error
\*   caps      HidP_GetCaps/GetValueCaps, atdll.cpp:294-303  hid_error
\*   alloc     malloc in make_malloc, atdll.cpp:182-185      std::bad_alloc
\*   buffer    GetRawInputData(RID_INPUT), atdll.cpp:233     win32_error
\*   decode    HidP_GetUsageValue/GetUsages, atdll.cpp:354   hid_error
FailPoints == {"none", "header", "preparsed", "caps", "alloc", "buffer", "decode"}

\* A device without contact slots and without override.
EmptyDevice ==
    [linkContactCount |-> 0, contactInfo |-> <<>>, hasOverride |-> FALSE,
     touchAreaOverride |-> MkRect(0, 0, 0, 0)]

\* AT_GetDeviceInfo inserting the device before its descriptor is parsed.
AT_GetDeviceInfoInsertFirst(devices, hDevice, fail) ==
    IF hDevice \in DOMAIN devices
    THEN {[exc |-> NoExc, devices |-> devices]}
    ELSE IF fail = "preparsed"
    THEN {[exc |-> "win32_error", devices |-> Put(devices, hDevice, EmptyDevice)]}
    ELSE IF fail = "caps"
    THEN {[exc |-> "hid_error", devices |-> Put(devices, hDevice, EmptyDevice)]}
    ELSE {[exc |-> "runtime_error", devices |-> Put(devices, hDevice, EmptyDevice)]}

\* The outcomes of AT_GetDeviceInfo(hDevice) when g_devices is `devices':
\* [exc, devices] with devices the value of g_devices afterwards.
AT_GetDeviceInfo(devices, hDevice, fail) ==
    IF hDevice \in DOMAIN devices
    THEN {[exc |-> NoExc, devices |-> devices]}
    ELSE IF fail = "preparsed" THEN {[exc |-> "win32_error", devices |-> devices]}
    ELSE IF fail = "caps" THEN {[exc |-> "hid_error", devices |-> devices]}
    ELSE
      LET st == ParseCaps(hDevice) IN
      IF ~st.hasCount
      THEN {[exc |-> "runtime_error", devices |-> devices]}
      ELSE
        {[exc |-> NoExc,
          devices |-> Put(devices, hDevice,
             [linkContactCount |-> st.linkContactCount,
              contactInfo |-> [i \in DOMAIN o |->
                  [link |-> o[i], touchArea |-> st.contacts[o[i]].touchArea]],
              hasOverride |-> FALSE,
              touchAreaOverride |-> MkRect(0, 0, 0, 0)])]
         : o \in Orders(Qualifying(st.contacts))}

----------------------------------------------------------------------------
(* AT_GetContacts, atdll.cpp:541-618.                                       *)
(* A raw HID input is [dwCount, numContacts, slots]: the number of HID      *)
(* reports in the buffer, the contact-count field of the report and, for    *)
(* each link collection, the fields [tip, id, x, y] the HidP_* accessors    *)
(* return for it.                                                           *)

\* DecodeSlots without the test of the tip switch.
RECURSIVE DecodeSlotsAll(_, _, _, _)
DecodeSlotsAll(dev, input, i, numContacts) ==
    IF i > numContacts THEN <<>>
    ELSE
      LET info == dev.contactInfo[i]
          slot == input.slots[info.link]
      IN  <<[info |-> info, id |-> slot.id, point |-> MkPoint(slot.x, slot.y)]>>
          \o DecodeSlotsAll(dev, input, i + 1, numContacts)

\* The loop at atdll.cpp:571-615 from slot i on.
RECURSIVE DecodeSlots(_, _, _, _)
DecodeSlots(dev, input, i, numContacts) ==
    IF i > numContacts THEN <<>>
    ELSE
      LET info == dev.contactInfo[i]
          slot == input.slots[info.link]
          rest == DecodeSlots(dev, input, i + 1, numContacts)
      IN  IF ~slot.tip THEN rest
          ELSE <<[info |-> info, id |-> slot.id, point |-> MkPoint(slot.x, slot.y)]>> \o rest

\* AT_GetContacts rejecting a contact count above the number of slots.
AT_GetContactsStrict(dev, input, fail) ==
    IF input.dwCount = 0 THEN [exc |-> NoExc, contacts |-> <<>>]
    ELSE IF fail = "decode" \/ input.numContacts > Len(dev.contactInfo)
    THEN [exc |-> "hid_error", contacts |-> <<>>]
    ELSE [exc |-> NoExc, contacts |-> DecodeSlots(dev, input, 1, input.numContacts)]

\* [exc, contacts]
AT_GetContacts(dev, input, fail) ==
    IF input.dwCount = 0 THEN [exc |-> NoExc, contacts |-> <<>>]
    ELSE IF fail = "decode" THEN [exc |-> "hid_error", contacts |-> <<>>]
    ELSE
      LET numContacts == IF input.numContacts > Len(dev.contactInfo)
                         THEN Len(dev.contactInfo) ELSE input.numContacts
      IN  [exc |-> NoExc, contacts |-> DecodeSlots(dev, input, 1, numContacts)]

----------------------------------------------------------------------------
(* AT_GetPrimaryContact, atdll.cpp:624-634.                                 *)

\* Index of the first contact whose id is `id', 0 if there is none.
RECURSIVE FindContact(_, _, _)
FindContact(contacts, id, i) ==
    IF i > Len(contacts) THEN 0
    ELSE IF contacts[i].id = id THEN i
    ELSE FindContact(contacts, id, i + 1)

\* AT_GetPrimaryContact without the search for the sticky id.
AT_GetPrimaryContactFirst(contacts, primaryContactID) ==
    [contact |-> contacts[1], primaryContactID |-> contacts[1].id]

\* [contact, primaryContactID] for a non-empty list of contacts.
AT_GetPrimaryContact(contacts, primaryContactID) ==
    LET i == FindContact(contacts, primaryContactID, 1)
    IN  IF i # 0 THEN [contact |-> contacts[i], primaryContactID |-> primaryContactID]
        ELSE [contact |-> contacts[1], primaryContactID |-> contacts[1].id]

----------------------------------------------------------------------------
(* Calibration: atdll.cpp:637-745 and 864-874.                              *)

\* The accumulator of a device that has none yet, atdll.cpp:641-645, 686-690.
EmptyArea == MkRect(LONG_MAX, LONG_MAX, LONG_MIN, LONG_MIN)

AreaOf(area, hDevice) == IF hDevice \in DOMAIN area THEN area[hDevice] ELSE EmptyArea

RECURSIVE ExtendArea(_, _, _)
ExtendArea(touchArea, contacts, i) ==
    IF i > Len(contacts) THEN touchArea
    ELSE ExtendArea(
           MkRect(Min(touchArea.left, contacts[i].point.x),
                  Min(touchArea.top, contacts[i].point.y),
                  Max(touchArea.right, contacts[i].point.x),
                  Max(touchArea.bottom, contacts[i].point.y)),
           contacts, i + 1)

\* AT_ExtendCalibrationArea, atdll.cpp:637-655: the thread's map afterwards.
AT_ExtendCalibrationArea(area, hDevice, contacts) ==
    Put(area, hDevice, ExtendArea(AreaOf(area, hDevice), contacts, 1))

\* AT_GetTouchArea without the override.
AT_GetTouchAreaDescriptor(dev, contact) == contact.info.touchArea

\* AT_GetTouchArea, atdll.cpp:660-668.
AT_GetTouchArea(dev, contact) ==
    IF dev.hasOverride THEN dev.touchAreaOverride ELSE contact.info.touchArea

\* fprintf("%ld", v), atdll.cpp:737-740: the decimal text of a LONG, as
\* [neg, digits].  The digits of a negative value are taken without negating
\* it (LONG_MIN has no negation in LONG).
RECURSIVE DigitsOf(_)
DigitsOf(n) == IF n < 10 THEN <<n>> ELSE Append(DigitsOf(n \div 10), n % 10)

FormatLong(v) ==
    IF v >= 0 THEN [neg |-> FALSE, digits |-> DigitsOf(v)]
    ELSE LET d == (10 - (v % 10)) % 10
             q == -((v + d) \div 10)
         IN  [neg |-> TRUE,
              digits |-> IF q = 0 THEN <<d>> ELSE Append(DigitsOf(q), d)]

\* A token that is no number: fscanf's %ld fails on it.
NotANumber == [neg |-> FALSE, digits |-> <<>>]

\* fscanf("%ld"), atdll.cpp:698: the LONG a decimal text stands for (texts
\* within the range of LONG).
RECURSIVE ScanDigits(_, _, _, _)
ScanDigits(digits, i, acc, neg) ==
    IF i > Len(digits) THEN acc
    ELSE ScanDigits(digits, i + 1,
                    IF neg THEN acc * 10 - digits[i] ELSE acc * 10 + digits[i], neg)

ScanLong(text) == ScanDigits(text.digits, 1, 0, text.neg)

\* The fscanf loop of AT_LoadCalibration, atdll.cpp:695-715.  The file is a
\* sequence of lines [key, value]: a word and the token after it.  The loop
\* ends at the end of the file and at a line whose value is no number
\* (fscanf returns 1).
RECURSIVE ReadConfig(_, _, _)
ReadConfig(touchArea, lines, i) ==
    IF i > Len(lines) THEN touchArea
    ELSE IF lines[i].value = NotANumber THEN touchArea
    ELSE
      LET k == lines[i].key
          v == ScanLong(lines[i].value)
          next == IF k = "LEFT" THEN [touchArea EXCEPT !.left = v]
                  ELSE IF k = "TOP" THEN [touchArea EXCEPT !.top = v]
                  ELSE IF k = "RIGHT" THEN [touchArea EXCEPT !.right = v]
                  ELSE IF k = "BOTTOM" THEN [touchArea EXCEPT !.bottom = v]
                  ELSE touchArea
      IN  ReadConfig(next, lines, i + 1)

\* atcalibration.conf: whether it exists, and its [key, value] pairs.
NoFile == [exists |-> FALSE, lines |-> <<>>]
FileOf(lines) == [exists |-> TRUE, lines |-> lines]
\* `saved' when the file was not written by a completed Save, or was
\* changed since.
NotSaved == [set |-> FALSE, rect |-> MkRect(0, 0, 0, 0)]

\* AT_LoadCalibration without the assignment at atdll.cpp:717.
AT_LoadCalibrationNoCommit(hDevice, area) ==
    IF ~calFile.exists
    THEN [exc |-> NoExc, area |-> area, devices |-> g_devices]
    ELSE [exc |-> NoExc,
          area |-> Put(area, hDevice, ReadConfig(AreaOf(area, hDevice), calFile.lines, 1)),
          devices |-> g_devices]

\* AT_LoadCalibration(hDevice) on thread state `area', atdll.cpp:673-721:
\* [exc, area, devices].
AT_LoadCalibration(hDevice, area) ==
    IF ~calFile.exists
    THEN [exc |-> NoExc, area |-> area, devices |-> g_devices]
    ELSE
      LET touchArea == ReadConfig(AreaOf(area, hDevice), calFile.lines, 1)
          area2 == Put(area, hDevice, touchArea)
      IN  IF hDevice \notin DOMAIN g_devices
          THEN [exc |-> "out_of_range", area |-> area2, devices |-> g_devices]
          ELSE [exc |-> NoExc, area |-> area2,
                devices |-> [g_devices EXCEPT ![hDevice].hasOverride = TRUE,
                                              ![hDevice].touchAreaOverride = touchArea]]

\* AT_SaveCalibration(hDevice), atdll.cpp:724-745: [exc, file].  fopen("w")
\* truncates the file before the device is looked up.
AT_SaveCalibration(hDevice, fopenOK) ==
    IF ~fopenOK THEN [exc |-> NoExc, file |-> calFile]
    ELSE IF hDevice \notin DOMAIN g_devices
    THEN [exc |-> "out_of_range", file |-> FileOf(<<>>)]
    ELSE IF ~g_devices[hDevice].hasOverride
    THEN [exc |-> "bad_optional_access", file |-> FileOf(<<>>)]
    ELSE
      LET touchArea == g_devices[hDevice].touchAreaOverride
      IN  [exc |-> NoExc,
           file |-> FileOf(<< [key |-> "LEFT", value |-> FormatLong(touchArea.left)],
                              [key |-> "TOP", value |-> FormatLong(touchArea.top)],
                              [key |-> "RIGHT", value |-> FormatLong(touchArea.right)],
                              [key |-> "BOTTOM", value |-> FormatLong(touchArea.bottom)] >>)]

\* AT_ToggleCalibrationMode on thread state `area', atdll.cpp:864-874:
\* the outcomes [exc, area, devices, inCalibrationMode].  The loop visits the
\* std::unordered_map in an unspecified order; g_devices.at throws for a
\* device that is not cached, after the entries visited before it were
\* committed.
AT_ToggleCalibrationMode(area) ==
    IF ~g_inCalibrationMode
    THEN {[exc |-> NoExc, area |-> area, devices |-> g_devices, inCalibrationMode |-> TRUE]}
    ELSE
      LET cached == DOMAIN area \cap DOMAIN g_devices
          Commit(S) == [d \in DOMAIN g_devices |->
                          IF d \in S
                          THEN [g_devices[d] EXCEPT !.hasOverride = TRUE,
                                                    !.touchAreaOverride = area[d]]
                          ELSE g_devices[d]]
      IN  IF DOMAIN area \subseteq DOMAIN g_devices
          THEN {[exc |-> NoExc, area |-> EmptyMap, devices |-> Commit(cached),
                 inCalibrationMode |-> FALSE]}
          ELSE {[exc |-> "out_of_range", area |-> area, devices |-> Commit(S),
                 inCalibrationMode |-> TRUE] : S \in SUBSET cached}

----------------------------------------------------------------------------
(* AT_HandleRawInput, atdll.cpp:751-808.                                    *)

MAGIC_HANDLE == 0               \* atdll.cpp:29
MOUSE_MOVE_ABSOLUTE == 1        \* usFlags written at atdll.cpp:799
SIZEOF_RAWINPUTHEADER == 24     \* sizeof(RAWINPUTHEADER), 64-bit build
SIZEOF_RAWINPUT == 48           \* sizeof(RAWINPUT), 64-bit build

\* t_injectedInput of a thread that has not injected yet: thread_local
\* storage is zero-initialised (RIM_TYPEMOUSE is 0).
ZeroInput ==
    [dwType |-> "MOUSE", dwSize |-> 0, wParam |-> 0, hDevice |-> nullptr,
     usFlags |-> 0, ulExtraInformation |-> 0, usButtonFlags |-> 0,
     usButtonData |-> 0, lLastX |-> 0, lLastY |-> 0]

\* InjectedInput without the header fields copied from the message.
InjectedInputNoHeader(wParam, hDevice, screenPoint) ==
    [dwType |-> "MOUSE", dwSize |-> SIZEOF_RAWINPUT, wParam |-> 0,
     hDevice |-> nullptr, usFlags |-> MOUSE_MOVE_ABSOLUTE,
     ulExtraInformation |-> 0, usButtonFlags |-> 0, usButtonData |-> 0,
     lLastX |-> screenPoint.x, lLastY |-> screenPoint.y]

\* The record written at atdll.cpp:794-804 (header.wParam at 797).
InjectedInput(wParam, hDevice, screenPoint) ==
    [dwType |-> "MOUSE", dwSize |-> SIZEOF_RAWINPUT, wParam |-> wParam,
     hDevice |-> hDevice, usFlags |-> MOUSE_MOVE_ABSOLUTE,
     ulExtraInformation |-> 0, usButtonFlags |-> 0, usButtonData |-> 0,
     lLastX |-> screenPoint.x, lLastY |-> screenPoint.y]

Ids(contacts) == [i \in DOMAIN contacts |-> contacts[i].id]
Points(contacts) == [i \in DOMAIN contacts |-> contacts[i].point]

\* SpliceReport without the calibration branch of atdll.cpp:784-787.
SpliceReportNoCalibration(b1, t, wParam, ri, dev, contacts) ==
    LET prim == AT_GetPrimaryContact(contacts, t_primaryContactID[t])
        touchArea == AT_GetTouchArea(dev, prim.contact)
        screenPoint == AT_TouchpadToScreen(touchArea, prim.contact.point)
    IN
    IF Len(contacts) = 0 THEN [b1 EXCEPT !.handled = TRUE]
    ELSE IF screenPoint.fault
    THEN [b1 EXCEPT !.exc = "divide_error", !.ids = Ids(contacts), !.points = Points(contacts),
                    !.primary = prim.primaryContactID,
                    !.chosen = prim.contact.id]
    ELSE [b1 EXCEPT !.sentinel = TRUE, !.ids = Ids(contacts), !.points = Points(contacts),
                    !.primary = prim.primaryContactID,
                    !.chosen = prim.contact.id,
                    !.injected = InjectedInput(wParam, ri.hDevice, screenPoint)]

\* SpliceReport without the early return for a report without contacts.
SpliceReportForwardEmpty(b1, t, wParam, ri, dev, contacts) ==
    IF Len(contacts) = 0 THEN b1
    ELSE IF g_inCalibrationMode
    THEN [b1 EXCEPT !.handled = TRUE, !.ids = Ids(contacts), !.points = Points(contacts),
                    !.area = AT_ExtendCalibrationArea(@, ri.hDevice, contacts)]
    ELSE SpliceReportNoCalibration(b1, t, wParam, ri, dev, contacts)

\* atdll.cpp:776-807, the part of AT_HandleRawInput that follows the decoding
\* of a HID report: b1 is the outcome so far, dev the cached device, contacts
\* the decoded contacts.
SpliceReport(b1, t, wParam, ri, dev, contacts) ==
    LET prim == AT_GetPrimaryContact(contacts, t_primaryContactID[t])
        touchArea == AT_GetTouchArea(dev, prim.contact)
        screenPoint == AT_TouchpadToScreen(touchArea, prim.contact.point)
    IN
    IF Len(contacts) = 0 THEN [b1 EXCEPT !.handled = TRUE]
    ELSE IF g_inCalibrationMode
    THEN [b1 EXCEPT !.handled = TRUE, !.ids = Ids(contacts), !.points = Points(contacts),
                    !.area = AT_ExtendCalibrationArea(@, ri.hDevice, contacts)]
    ELSE IF screenPoint.fault
    THEN [b1 EXCEPT !.exc = "divide_error", !.ids = Ids(contacts), !.points = Points(contacts),
                    !.primary = prim.primaryContactID,
                    !.chosen = prim.contact.id]
    ELSE [b1 EXCEPT !.sentinel = TRUE, !.ids = Ids(contacts), !.points = Points(contacts),
                    !.primary = prim.primaryContactID,
                    !.chosen = prim.contact.id,
                    !.injected = InjectedInput(wParam, ri.hDevice, screenPoint)]

\* NonHidHandled that never consumes the message.
NonHidHandledNever(dwType) == FALSE

\* The return value of AT_HandleRawInput for raw input that is no HID input,
\* atdll.cpp:757-770: mouse input is consumed, anything else is not.
NonHidHandled(dwType) == dwType = "MOUSE"

\* The outcomes of AT_HandleRawInput on thread t for the raw input
\* ri = [dwType, hDevice, input]: the exception thrown (if any), the return
\* value `handled', whether *lParam was rewritten to MAGIC_HANDLE, and the
\* values of the variables it writes.  ids and points record the decoded
\* contacts, chosen the primary contact's id (-1: none chosen).
AT_HandleRawInput(t, wParam, ri, fail) ==
    LET base == [exc |-> NoExc, handled |-> FALSE, sentinel |-> FALSE,
                 lastDevice |-> g_lastDevice, devices |-> g_devices,
                 area |-> t_calibrationArea[t],
                 primary |-> t_primaryContactID[t],
                 injected |-> t_injectedInput[t],
                 ids |-> <<>>, points |-> <<>>, chosen |-> -1]
    IN
    IF fail = "header" THEN {[base EXCEPT !.exc = "win32_error"]}
    ELSE IF ri.dwType # "HID" THEN {[base EXCEPT !.handled = NonHidHandled(ri.dwType)]}
    ELSE
      { LET b1 == [base EXCEPT !.lastDevice = ri.hDevice, !.devices = o.devices]
            dev == o.devices[ri.hDevice]
            dec == AT_GetContacts(dev, ri.input, fail)
        IN
        IF o.exc # NoExc THEN [b1 EXCEPT !.exc = o.exc]
        ELSE IF fail = "alloc" THEN [b1 EXCEPT !.exc = "bad_alloc"]
        ELSE IF fail = "buffer" THEN [b1 EXCEPT !.exc = "win32_error"]
        ELSE IF dec.exc # NoExc THEN [b1 EXCEPT !.exc = dec.exc]
        ELSE SpliceReport(b1, t, wParam, ri, dev, dec.contacts)
      : o \in AT_GetDeviceInfo(g_devices, ri.hDevice, fail) }

----------------------------------------------------------------------------
(* AT_GetRawInputDataHook, atdll.cpp:813-860.                               *)

UINT_ERROR == -1                \* (UINT)-1

Header(input) ==
    [dwType |-> input.dwType, dwSize |-> input.dwSize,
     wParam |-> input.wParam, hDevice |-> input.hDevice]

\* AT_GetRawInputDataHook without the test of *pcbSize at atdll.cpp:851.
AT_GetRawInputDataHookNoSizeCheck(t, hRawInput, uiCommand, pDataNull, cbSize, cbSizeHeader) ==
    LET r == [delegated |-> FALSE, ret |-> UINT_ERROR, cbSize |-> cbSize,
              copied |-> FALSE, data |-> ZeroInput]
        size == IF uiCommand = "RID_HEADER" THEN SIZEOF_RAWINPUTHEADER ELSE SIZEOF_RAWINPUT
        data == IF uiCommand = "RID_HEADER" THEN Header(t_injectedInput[t])
                ELSE t_injectedInput[t]
    IN
    IF hRawInput # MAGIC_HANDLE THEN [r EXCEPT !.delegated = TRUE]
    ELSE IF cbSizeHeader # SIZEOF_RAWINPUTHEADER THEN r
    ELSE IF uiCommand \notin {"RID_HEADER", "RID_INPUT"} THEN r
    ELSE IF pDataNull THEN [r EXCEPT !.ret = 0, !.cbSize = size]
    ELSE [r EXCEPT !.ret = size, !.cbSize = size, !.copied = TRUE, !.data = data]

\* [delegated, ret, cbSize, copied, data]: whether the call went to the real
\* GetRawInputData, the return value, *pcbSize afterwards, whether pData was
\* written and with what.
AT_GetRawInputDataHook(t, hRawInput, uiCommand, pDataNull, cbSize, cbSizeHeader) ==
    LET r == [delegated |-> FALSE, ret |-> UINT_ERROR, cbSize |-> cbSize,
              copied |-> FALSE, data |-> ZeroInput]
        size == IF uiCommand = "RID_HEADER" THEN SIZEOF_RAWINPUTHEADER ELSE SIZEOF_RAWINPUT
        data == IF uiCommand = "RID_HEADER" THEN Header(t_injectedInput[t])
                ELSE t_injectedInput[t]
    IN
    IF hRawInput # MAGIC_HANDLE THEN [r EXCEPT !.delegated = TRUE]
    ELSE IF cbSizeHeader # SIZEOF_RAWINPUTHEADER THEN r
    ELSE IF uiCommand \notin {"RID_HEADER", "RID_INPUT"} THEN r
    ELSE IF pDataNull THEN [r EXCEPT !.ret = 0, !.cbSize = size]
    ELSE IF cbSize < size THEN r
    ELSE [r EXCEPT !.ret = size, !.cbSize = size, !.copied = TRUE, !.data = data]

----------------------------------------------------------------------------
(* AT_WndProcHook, atdll.cpp:879-928.                                       *)

HOTKEY_ENABLE_ID == 51966       \* 0xCAFE
HOTKEY_CALIBRATION_ID == 51967  \* 0xCAFF
HOTKEY_LOAD_ID == 51965         \* 0xCAFD
HOTKEY_SAVE_ID == 51964         \* 0xCAFC

NoProc == "-"

\* Engaged without the test of the two mode flags.
AlwaysEngaged == TRUE

\* The condition at atdll.cpp:904.
Engaged == g_enabled \/ g_inCalibrationMode

\* The outcomes of AT_WndProcHook(hWnd, message, wParam, lParam) on the
\* thread that owns hWnd.  ri is the raw input lParam stands for (WM_INPUT
\* only), fail the OS call that fails while it is handled, fopenOK whether
\* fopen(CALIBRATION_FILE, "w") succeeds.  An outcome holds
\*   exc      the exception that leaves the procedure (NoExc: none),
\*   caught   the exception caught at atdll.cpp:914-920 (NoExc: none),
\*   ret      "zero" (returned 0 itself), "chained" (returned what the
\*            stored original procedure returned) or "exception",
\*   callProc, callW, callL   the CallWindowProcW call made (NoProc: none),
\*   sentinel, ids, points, chosen    as returned by AT_HandleRawInput,
\* and the values of the variables the procedure can write.
AT_WndProcHook(hWnd, message, wParam, lParam, ri, fail, fopenOK) ==
    LET t == Owner(hWnd)
        base == [exc |-> NoExc, caught |-> NoExc, ret |-> "zero",
                 callProc |-> NoProc, callW |-> wParam, callL |-> lParam,
                 sentinel |-> FALSE, ids |-> <<>>, points |-> <<>>, chosen |-> -1,
                 enabled |-> g_enabled, inCalibrationMode |-> g_inCalibrationMode,
                 lastDevice |-> g_lastDevice, devices |-> g_devices,
                 area |-> t_calibrationArea[t], primary |-> t_primaryContactID[t],
                 injected |-> t_injectedInput[t], file |-> calFile]
        Throw(b, e) == [b EXCEPT !.exc = e, !.ret = "exception"]
        \* atdll.cpp:927
        Chain(b, w, l) ==
            IF hWnd \in DOMAIN g_originalWndProcs
            THEN [b EXCEPT !.ret = "chained", !.callProc = g_originalWndProcs[hWnd],
                           !.callW = w, !.callL = l]
            ELSE Throw(b, "out_of_range")
    IN
    IF message = "WM_HOTKEY" /\ wParam = HOTKEY_ENABLE_ID
    THEN {[base EXCEPT !.enabled = ~g_enabled]}
    ELSE IF message = "WM_HOTKEY" /\ wParam = HOTKEY_CALIBRATION_ID
    THEN { LET b == [base EXCEPT !.area = o.area, !.devices = o.devices,
                                 !.inCalibrationMode = o.inCalibrationMode]
           IN  IF o.exc # NoExc THEN Throw(b, o.exc) ELSE b
         : o \in AT_ToggleCalibrationMode(t_calibrationArea[t]) }
    ELSE IF message = "WM_HOTKEY" /\ wParam = HOTKEY_LOAD_ID
    THEN LET o == AT_LoadCalibration(g_lastDevice, t_calibrationArea[t])
             b == [base EXCEPT !.area = o.area, !.devices = o.devices]
         IN  {IF o.exc # NoExc THEN Throw(b, o.exc) ELSE b}
    ELSE IF message = "WM_HOTKEY" /\ wParam = HOTKEY_SAVE_ID
    THEN LET o == AT_SaveCalibration(g_lastDevice, fopenOK)
             b == [base EXCEPT !.file = o.file]
         IN  {IF o.exc # NoExc THEN Throw(b, o.exc) ELSE b}
    ELSE IF Engaged /\ message = "WM_MOUSEMOVE"
    THEN {base}
    ELSE IF Engaged /\ message = "WM_INPUT"
    THEN { LET b == [base EXCEPT !.lastDevice = o.lastDevice, !.devices = o.devices,
                                 !.area = o.area, !.primary = o.primary,
                                 !.injected = o.injected, !.sentinel = o.sentinel,
                                 !.ids = o.ids, !.points = o.points,
                                 !.chosen = o.chosen]
           IN  IF o.exc \in CaughtExc
               THEN Chain([b EXCEPT !.caught = o.exc], wParam, lParam)
               ELSE IF o.exc # NoExc THEN Throw(b, o.exc)
               ELSE IF o.handled THEN b
               ELSE Chain(b, wParam, IF o.sentinel THEN MAGIC_HANDLE ELSE lParam)
         : o \in AT_HandleRawInput(t, wParam, ri, fail) }
    ELSE {Chain(base, wParam, lParam)}

\* The raw input of a message that is no WM_INPUT.
NoRawInput == [dwType |-> "-", hDevice |-> nullptr,
               input |-> [dwCount |-> 0, numContacts |-> 0, slots |-> EmptyMap]]

\* The report sequence of the primary-contact example and the primary ids it
\* is expected to give.
PrimarySeq == << <<7, 9>>, <<9, 7>>, <<9>>, <<9, 11>> >>
PrimaryExpected == <<7, 7, 9, 9>>

\* ThreadLocal that gives every thread the value written by one.
ProcessWide(f, t, v) == [u \in DOMAIN f |-> v]

\* A write of v to a thread_local variable by thread t, atdll.cpp:167-174:
\* f holds the variable's value for every thread.
ThreadLocal(f, t, v) == [f EXCEPT ![t] = v]

\* The variables of thread t an outcome r of AT_WndProcHook changes.
Changed(t, r) ==
    (IF r.enabled # g_enabled THEN {"g_enabled"} ELSE {})
    \cup (IF r.inCalibrationMode # g_inCalibrationMode THEN {"g_inCalibrationMode"} ELSE {})
    \cup (IF r.lastDevice # g_lastDevice THEN {"g_lastDevice"} ELSE {})
    \cup (IF r.devices # g_devices THEN {"g_devices"} ELSE {})
    \cup (IF r.area # t_calibrationArea[t] THEN {"t_calibrationArea"} ELSE {})
    \cup (IF r.primary # t_primaryContactID[t] THEN {"t_primaryContactID"} ELSE {})
    \cup (IF r.injected # t_injectedInput[t] THEN {"t_injectedInput"} ELSE {})
    \cup (IF r.file # calFile THEN {"calFile"} ELSE {})

\* The OS dispatches a message to hWnd, whose procedure is the shim's.
WndProc(hWnd, message, wParam, lParam, ri, fail, fopenOK) ==
    LET t == Owner(hWnd) IN
    /\ pc = "running"
    /\ osWndProc[hWnd] = Shim
    /\ \E r \in AT_WndProcHook(hWnd, message, wParam, lParam, ri, fail, fopenOK) :
        /\ g_enabled' = r.enabled
        /\ g_inCalibrationMode' = r.inCalibrationMode
        /\ g_lastDevice' = r.lastDevice
        /\ g_devices' = r.devices
        /\ t_calibrationArea' = ThreadLocal(t_calibrationArea, t, r.area)
        /\ t_primaryContactID' = ThreadLocal(t_primaryContactID, t, r.primary)
        /\ t_injectedInput' = ThreadLocal(t_injectedInput, t, r.injected)
        /\ calFile' = r.file
        /\ lastSpliced' = IF r.sentinel /\ r.ret = "chained"
                          THEN [lastSpliced EXCEPT ![t] = [hDevice |-> ri.hDevice, wParam |-> wParam]]
                          ELSE lastSpliced
        /\ seq' = IF r.chosen = -1 THEN seq
                  ELSE [seq EXCEPT ![t] =
                          IF @ \in 0..(Len(PrimarySeq) - 1) /\ r.ids = PrimarySeq[@ + 1]
                          THEN @ + 1 ELSE -1]
        /\ lastPrimary' = IF r.sentinel /\ r.ret = "chained"
                          THEN [lastPrimary EXCEPT ![t] = Put(@, ri.hDevice, r.chosen)]
                          ELSE lastPrimary
        /\ saved' = IF message = "WM_HOTKEY" /\ wParam = HOTKEY_SAVE_ID /\ fopenOK
                    THEN IF r.exc = NoExc
                         THEN [set |-> TRUE,
                               rect |-> g_devices[g_lastDevice].touchAreaOverride]
                         ELSE NotSaved
                    ELSE saved
        /\ session' = IF message = "WM_HOTKEY" /\ wParam = HOTKEY_CALIBRATION_ID
                       THEN (IF r.inCalibrationMode THEN session ELSE EmptyMap)
                       ELSE IF message = "WM_INPUT" /\ g_inCalibrationMode /\ r.points # <<>>
                       THEN Put(session, ri.hDevice,
                                (IF ri.hDevice \in DOMAIN session
                                 THEN session[ri.hDevice] ELSE {})
                                \cup {r.points[i] : i \in DOMAIN r.points})
                       ELSE session
        /\ out' = [op |-> "WndProc", hWnd |-> hWnd, thread |-> t,
                   message |-> message, wParam |-> wParam, lParam |-> lParam,
                   dwType |-> ri.dwType, hDevice |-> ri.hDevice,
                   input |-> ri.input, fail |-> fail,
                   devicesBefore |-> g_devices, lastDeviceBefore |-> g_lastDevice,
                   session |-> session,
                   enabled |-> g_enabled,
                   inCalibrationMode |-> g_inCalibrationMode,
                   primaryBefore |-> t_primaryContactID[t],
                   devicePrimaryBefore |->
                       IF ri.hDevice \in DOMAIN lastPrimary[t]
                       THEN lastPrimary[t][ri.hDevice] ELSE -1,
                   areaBefore |-> t_calibrationArea[t],
                   changed |-> Changed(t, r),
                   others |-> {u \in Threads \ {t} :
                      \/ ThreadLocal(t_calibrationArea, t, r.area)[u] # t_calibrationArea[u]
                      \/ ThreadLocal(t_primaryContactID, t, r.primary)[u] # t_primaryContactID[u]
                      \/ ThreadLocal(t_injectedInput, t, r.injected)[u] # t_injectedInput[u]},
                   exc |-> r.exc, caught |-> r.caught, ret |-> r.ret,
                   callProc |-> r.callProc, callW |-> r.callW, callL |-> r.callL,
                   sentinel |-> r.sentinel, ids |-> r.ids, points |-> r.points,
                   chosen |-> r.chosen]
    /\ UNCHANGED <<pc, detours, osWndProc, g_originalWndProcs, hostKnows, restored,
                   created, believed, gdi>>

----------------------------------------------------------------------------
(* AT_GetDeviceInfo and its caller, step by step.  No lock is taken around  *)
(* g_devices (atdll.cpp:153, 460-538, 771-776), so the handlers of two UI   *)
(* threads interleave between the accesses to it: the test                  *)
(* g_devices.count(hDevice), the assignment g_devices[hDevice] = dev after  *)
(* the descriptor was parsed, and the caller's use of the returned          *)
(* reference.  gdi holds for every thread its position (at), the device     *)
(* it handles and whether the element its reference designates was         *)
(* assigned to by another thread (clobbered), and for every device the      *)
(* number of assignments made to its element (inserts).                     *)

\* atdll.cpp:771 and 463-465: the most recent device is recorded and the
\* cache is tested; a cached device gives the reference at once.
GdiCheck(hWnd, hDevice) ==
    LET t == Owner(hWnd) IN
    /\ pc = "running" /\ osWndProc[hWnd] = Shim /\ Engaged
    /\ gdi.at[t] = "idle"
    /\ g_lastDevice' = hDevice
    /\ gdi' = [gdi EXCEPT !.at[t] = IF hDevice \in DOMAIN g_devices
                                    THEN "holding" ELSE "parsing",
                          !.hDevice[t] = hDevice]
    /\ out' = [op |-> "AT_GetDeviceInfo", step |-> "check", thread |-> t,
               hDevice |-> hDevice, clobbered |-> FALSE]
    /\ UNCHANGED <<pc, detours, osWndProc, g_originalWndProcs, g_devices, g_enabled,
                   g_inCalibrationMode, t_calibrationArea, t_injectedInput,
                   t_primaryContactID, calFile, hostKnows, created, believed,
                   restored, lastSpliced, seq, saved, lastPrimary, session>>

\* atdll.cpp:467-537: the descriptor is parsed and the result is assigned
\* to g_devices[hDevice], whether or not another thread has inserted the
\* device since the test.
GdiInsert(t) ==
    LET d == gdi.hDevice[t] IN
    /\ pc = "running"
    /\ gdi.at[t] = "parsing"
    /\ \E o \in AT_GetDeviceInfo(EmptyMap, d, "none") :
          /\ o.exc = NoExc
          /\ g_devices' = Put(g_devices, d, o.devices[d])
    /\ gdi' = [gdi EXCEPT !.at[t] = "holding",
                          !.inserts[d] = @ + 1,
                          !.clobbered = [u \in Threads |->
                              \/ @[u]
                              \/ u # t /\ gdi.at[u] = "holding" /\ gdi.hDevice[u] = d]]
    /\ out' = [op |-> "AT_GetDeviceInfo", step |-> "insert", thread |-> t,
               hDevice |-> d, clobbered |-> FALSE]
    /\ UNCHANGED <<pc, detours, osWndProc, g_originalWndProcs, g_enabled,
                   g_inCalibrationMode, g_lastDevice, t_calibrationArea,
                   t_injectedInput, t_primaryContactID, calFile, hostKnows,
                   created, believed, restored, lastSpliced, seq, saved, lastPrimary, session>>

\* atdll.cpp:776-790: the caller reads the device through the reference
\* (dev.contactInfo in AT_GetContacts, dev.touchAreaOverride in
\* AT_GetTouchArea).  Reading an element while another thread assigns to it
\* is a data race: the read sees the other thread's contents or faults on
\* the storage the assignment released.
GdiUse(t, fault) ==
    /\ pc = "running"
    /\ gdi.at[t] = "holding"
    /\ fault => gdi.clobbered[t]
    /\ pc' = IF fault THEN "crashed" ELSE pc
    /\ gdi' = [gdi EXCEPT !.at[t] = "idle", !.clobbered[t] = FALSE]
    /\ out' = [op |-> "AT_GetDeviceInfo", step |-> "use", thread |-> t,
               hDevice |-> gdi.hDevice[t], clobbered |-> gdi.clobbered[t]]
    /\ UNCHANGED <<detours, osWndProc, g_originalWndProcs, g_devices, g_enabled,
                   g_inCalibrationMode, g_lastDevice, t_calibrationArea,
                   t_injectedInput, t_primaryContactID, calFile, hostKnows,
                   created, believed, restored, lastSpliced, seq, saved, lastPrimary, session>>

----------------------------------------------------------------------------
(* The hooks of the window-procedure slot, atdll.cpp:978-1068.              *)

\* g_originalGetWindowLongPtrW / g_originalSetWindowLongPtrW: the real API.
\* Only the GWLP_WNDPROC slot is modelled; other indices read "other data".
NullProc == "null"
OsGetWindowLongPtrW(hWnd, nIndex) ==
    IF nIndex # "GWLP_WNDPROC" THEN "other data"
    ELSE IF hWnd \in Hwnds /\ osWndProc[hWnd] # NoWindow THEN osWndProc[hWnd]
    ELSE NullProc

\* [ret, os]: the previous value and the slots afterwards.
OsSetWindowLongPtrW(os, hWnd, nIndex, dwNewLong) ==
    IF nIndex # "GWLP_WNDPROC" THEN [ret |-> "other data", os |-> os]
    ELSE IF hWnd \in Hwnds /\ os[hWnd] # NoWindow
    THEN [ret |-> os[hWnd], os |-> [os EXCEPT ![hWnd] = dwNewLong]]
    ELSE [ret |-> NullProc, os |-> os]

\* AT_GetWindowLongPtrWHook without the lookup in the hook map.
AT_GetWindowLongPtrWUnhooked(hWnd, nIndex) == OsGetWindowLongPtrW(hWnd, nIndex)

\* AT_GetWindowLongPtrWHook, atdll.cpp:978-987: the value returned.
AT_GetWindowLongPtrWHook(hWnd, nIndex) ==
    IF nIndex = "GWLP_WNDPROC" /\ hWnd \in DOMAIN g_originalWndProcs
    THEN g_originalWndProcs[hWnd]
    ELSE OsGetWindowLongPtrW(hWnd, nIndex)

\* AT_SetWindowLongPtrWHook, atdll.cpp:991-1003: [ret, procs, os].
AT_SetWindowLongPtrWHook(hWnd, nIndex, dwNewLong) ==
    IF nIndex = "GWLP_WNDPROC" /\ hWnd \in DOMAIN g_originalWndProcs
    THEN [ret |-> g_originalWndProcs[hWnd],
          procs |-> [g_originalWndProcs EXCEPT ![hWnd] = dwNewLong],
          os |-> osWndProc]
    ELSE LET o == OsSetWindowLongPtrW(osWndProc, hWnd, nIndex, dwNewLong)
         IN  [ret |-> o.ret, procs |-> g_originalWndProcs, os |-> o.os]

\* AT_CreateWindowExWHook storing what the slot holds after the swap.
AT_CreateWindowExWStoresSlot(hWnd, classProc) ==
    LET os0 == IF hWnd = NULL THEN osWndProc ELSE [osWndProc EXCEPT ![hWnd] = classProc]
        o == OsSetWindowLongPtrW(os0, hWnd, "GWLP_WNDPROC", Shim)
    IN  [procs |-> Put(g_originalWndProcs, hWnd,
                       IF hWnd = NULL THEN NullProc ELSE o.os[hWnd]),
         os |-> o.os]

\* AT_CreateWindowExWHook, atdll.cpp:1040-1068: [procs, os].  hWnd is the
\* handle g_originalCreateWindowExW returns (NULL if it fails) and classProc
\* the procedure in the slot of the new window at that time.
AT_CreateWindowExWHook(hWnd, classProc) ==
    LET os0 == IF hWnd = NULL THEN osWndProc ELSE [osWndProc EXCEPT ![hWnd] = classProc]
        o == OsSetWindowLongPtrW(os0, hWnd, "GWLP_WNDPROC", Shim)
    IN  [procs |-> Put(g_originalWndProcs, hWnd, o.ret), os |-> o.os]

\* What a thread-local monitor holds before any message.
NoMsg == [hDevice |-> nullptr, wParam |-> -1]

Quiet == UNCHANGED <<g_devices, g_enabled, g_inCalibrationMode, g_lastDevice,
                     t_calibrationArea, t_injectedInput, t_primaryContactID,
                     calFile, lastSpliced, seq, saved, lastPrimary, gdi, session>>

\* The host creates a window (CreateWindowExW is intercepted).
CreateWindow(hWnd, classProc) ==
    /\ pc = "running" /\ detours
    /\ hWnd # NULL => osWndProc[hWnd] = NoWindow
    /\ LET r == AT_CreateWindowExWHook(hWnd, classProc) IN
        /\ g_originalWndProcs' = r.procs
        /\ osWndProc' = r.os
        /\ out' = [op |-> "CreateWindowExW", hWnd |-> hWnd, classProc |-> classProc]
    /\ created' = IF hWnd = NULL THEN created ELSE [created EXCEPT ![hWnd] = classProc]
    /\ believed' = IF hWnd = NULL THEN believed ELSE [believed EXCEPT ![hWnd] = classProc]
    /\ Quiet
    /\ UNCHANGED <<pc, detours, hostKnows, restored>>

\* The host reads a window long (GetWindowLongPtrW is intercepted).
GetWindowLong(hWnd, nIndex) ==
    /\ pc = "running" /\ detours
    /\ LET ret == AT_GetWindowLongPtrWHook(hWnd, nIndex) IN
        /\ out' = [op |-> "GetWindowLongPtrW", hWnd |-> hWnd, nIndex |-> nIndex,
                   ret |-> ret]
        /\ hostKnows' = hostKnows \cup ({ret} \cap Procs)
    /\ Quiet
    /\ UNCHANGED <<pc, detours, osWndProc, g_originalWndProcs, restored, created, believed>>

\* The host writes a window long (SetWindowLongPtrW is intercepted).  The
\* host can only install a procedure pointer it knows.
SetWindowLong(hWnd, nIndex, dwNewLong) ==
    /\ pc = "running" /\ detours
    /\ dwNewLong \in hostKnows
    /\ LET r == AT_SetWindowLongPtrWHook(hWnd, nIndex, dwNewLong) IN
        /\ g_originalWndProcs' = r.procs
        /\ osWndProc' = r.os
        /\ out' = [op |-> "SetWindowLongPtrW", hWnd |-> hWnd, nIndex |-> nIndex,
                   dwNewLong |-> dwNewLong, ret |-> r.ret,
                   believedBefore |-> IF hWnd = NULL THEN NoProc ELSE believed[hWnd]]
        /\ hostKnows' = hostKnows \cup ({r.ret} \cap Procs)
    /\ believed' = IF nIndex = "GWLP_WNDPROC" /\ hWnd # NULL /\ osWndProc[hWnd] # NoWindow
                   THEN [believed EXCEPT ![hWnd] = dwNewLong] ELSE believed
    /\ Quiet
    /\ UNCHANGED <<pc, detours, restored, created>>

\* The host retrieves raw input on thread t (GetRawInputData is intercepted).
GetRawInputData(t, hRawInput, uiCommand, pDataNull, cbSize, cbSizeHeader) ==
    /\ pc = "running" /\ detours
    /\ LET r == AT_GetRawInputDataHook(t, hRawInput, uiCommand, pDataNull, cbSize, cbSizeHeader) IN
        out' = [op |-> "GetRawInputData", thread |-> t, hRawInput |-> hRawInput,
                uiCommand |-> uiCommand, pDataNull |-> pDataNull,
                cbSizeIn |-> cbSize, cbSizeHeader |-> cbSizeHeader,
                delegated |-> r.delegated, ret |-> r.ret, cbSize |-> r.cbSize,
                copied |-> r.copied, data |-> r.data]
    /\ Quiet
    /\ UNCHANGED <<pc, detours, osWndProc, g_originalWndProcs, hostKnows, restored,
                   created, believed>>

----------------------------------------------------------------------------
(* DllMain, atdll.cpp:1189-1210.                                            *)

\* Points where an OS or HID call of AT_PrintSystemInfo can fail.
\*   list      GetRawInputDeviceList, atdll.cpp:246-254                  win32_error
\*   info      GetRawInputDeviceInfoW(RIDI_DEVICEINFO), atdll.cpp:265    win32_error
\*   preparsed, caps: as in FailPoints, inside AT_GetDeviceInfo
AttachFailPoints == {"none", "list", "info", "preparsed", "caps"}

\* AT_PrintSystemInfo, atdll.cpp:1110-1134: queries every device of the
\* device list and parses the descriptor of every touchpad, in list order
\* (list is the touchpads of the device list).  No call is inside a try
\* block: the first exception leaves the function.  [exc, devices] outcomes.
RECURSIVE AT_PrintSystemInfo(_, _, _, _)
AT_PrintSystemInfo(devices, list, i, fail) ==
    IF fail = "list" THEN {[exc |-> "win32_error", devices |-> devices]}
    ELSE IF i > Len(list) THEN {[exc |-> NoExc, devices |-> devices]}
    ELSE IF fail = "info" THEN {[exc |-> "win32_error", devices |-> devices]}
    ELSE UNION { IF o.exc # NoExc THEN {o}
                 ELSE AT_PrintSystemInfo(o.devices, list, i + 1, fail)
               : o \in AT_GetDeviceInfo(devices, list[i], fail) }

\* DLL_PROCESS_ATTACH in a process that is no Detours helper,
\* atdll.cpp:1197-1202.  list is the touchpads of GetRawInputDeviceList,
\* fail the call of AT_PrintSystemInfo that fails, commitOK whether
\* DetourTransactionCommit succeeds (AT_Initialize, atdll.cpp:1138-1155).
\* An exception leaves DllMain: what follows the throwing call is not run.
DllMainAttach(list, fail, commitOK) ==
    /\ pc = "attach"
    /\ \E o \in AT_PrintSystemInfo(g_devices, list, 1, fail) :
        /\ g_devices' = o.devices
        /\ IF o.exc # NoExc
           THEN /\ pc' = "attach failed"
                /\ detours' = FALSE
                /\ out' = [op |-> "DllMain", reason |-> "attach", exc |-> o.exc,
                           list |-> list, fail |-> fail, commitOK |-> commitOK]
           ELSE IF ~commitOK
           THEN /\ pc' = "attach failed"
                /\ detours' = FALSE
                /\ out' = [op |-> "DllMain", reason |-> "attach", exc |-> "runtime_error",
                           list |-> list, fail |-> fail, commitOK |-> commitOK]
           ELSE /\ pc' = "running"
                /\ detours' = TRUE
                /\ out' = [op |-> "DllMain", reason |-> "attach", exc |-> NoExc,
                           list |-> list, fail |-> fail, commitOK |-> commitOK]
    /\ UNCHANGED <<osWndProc, g_originalWndProcs, g_enabled, g_inCalibrationMode,
                   g_lastDevice, t_calibrationArea, t_injectedInput,
                   t_primaryContactID, calFile, hostKnows, created, believed,
                   restored, lastSpliced, seq, saved, lastPrimary, gdi, session>>

\* DLL_PROCESS_ATTACH when no call of AT_PrintSystemInfo fails.
ProcessAttach(list, commitOK) == DllMainAttach(list, "none", commitOK)

\* DLL_PROCESS_DETACH enters AT_Uninitialize, atdll.cpp:1203-1204.
ProcessDetach ==
    /\ pc = "running"
    /\ pc' = "restoring"
    /\ restored' = {}
    /\ out' = [op |-> "DllMain", reason |-> "detach", exc |-> NoExc]
    /\ Quiet
    /\ UNCHANGED <<detours, osWndProc, g_originalWndProcs, hostKnows, created, believed>>

\* UninitRestore without the write to the OS slot.
UninitSkipRestore(hWnd) ==
    /\ pc = "restoring"
    /\ hWnd \in DOMAIN g_originalWndProcs \ restored
    /\ restored' = restored \cup {hWnd}
    /\ out' = [op |-> "AT_Uninitialize", step |-> "restore", hWnd |-> hWnd]
    /\ Quiet
    /\ UNCHANGED <<pc, detours, osWndProc, g_originalWndProcs, hostKnows, created, believed>>

\* One iteration of the loop at atdll.cpp:1163-1169; the order in which the
\* std::unordered_map is visited is unspecified.
UninitRestore(hWnd) ==
    /\ pc = "restoring"
    /\ hWnd \in DOMAIN g_originalWndProcs \ restored
    /\ osWndProc' = OsSetWindowLongPtrW(osWndProc, hWnd, "GWLP_WNDPROC",
                                        g_originalWndProcs[hWnd]).os
    /\ restored' = restored \cup {hWnd}
    /\ out' = [op |-> "AT_Uninitialize", step |-> "restore", hWnd |-> hWnd]
    /\ Quiet
    /\ UNCHANGED <<pc, detours, g_originalWndProcs, hostKnows, created, believed>>

\* g_originalWndProcs.clear(), atdll.cpp:1170.
UninitClear ==
    /\ pc = "restoring"
    /\ DOMAIN g_originalWndProcs \subseteq restored
    /\ g_originalWndProcs' = EmptyMap
    /\ pc' = "detaching"
    /\ out' = [op |-> "AT_Uninitialize", step |-> "clear", hWnd |-> NULL]
    /\ Quiet
    /\ UNCHANGED <<detours, osWndProc, hostKnows, restored, created, believed>>

\* The Detours transaction, atdll.cpp:1172-1186.
UninitDetach(commitOK) ==
    /\ pc = "detaching"
    /\ detours' = ~commitOK
    /\ pc' = IF commitOK THEN "detached" ELSE "detach failed"
    /\ out' = [op |-> "AT_Uninitialize", step |-> "detach", hWnd |-> NULL]
    /\ Quiet
    /\ UNCHANGED <<osWndProc, g_originalWndProcs, hostKnows, restored, created, believed>>

----------------------------------------------------------------------------
(* Initial state: the DLL is mapped, DllMain has not run.  Fresh is the     *)
(* state of the program and of the monitors, Init adds that no operation   *)
(* has been observed yet.                                                   *)

Fresh ==
    /\ pc = "attach"
    /\ detours = FALSE
    /\ osWndProc = [h \in Hwnds |-> NoWindow]
    /\ g_originalWndProcs = EmptyMap
    /\ g_devices = EmptyMap
    /\ g_enabled = FALSE
    /\ g_inCalibrationMode = FALSE
    /\ g_lastDevice = nullptr
    /\ t_calibrationArea = [t \in Threads |-> EmptyMap]
    /\ t_injectedInput = [t \in Threads |-> ZeroInput]
    /\ t_primaryContactID = [t \in Threads |-> 0]
    /\ calFile = NoFile
    /\ hostKnows = HostProcs
    /\ created = [h \in Hwnds |-> NoProc]
    /\ believed = [h \in Hwnds |-> NoProc]
    /\ restored = {}
    /\ lastSpliced = [t \in Threads |-> NoMsg]
    /\ seq = [t \in Threads |-> 0]
    /\ saved = NotSaved
    /\ lastPrimary = [t \in Threads |-> EmptyMap]
    /\ gdi = [at |-> [t \in Threads |-> "idle"],
              hDevice |-> [t \in Threads |-> nullptr],
              clobbered |-> [t \in Threads |-> FALSE],
              inserts |-> [d \in Touchpads |-> 0]]
    /\ session = EmptyMap

Init == Fresh /\ out = [op |-> "none"]

----------------------------------------------------------------------------
(* Inputs.                                                                  *)

RIM_INPUT == 0                  \* wParam of WM_INPUT: foreground
RIM_INPUTSINK == 1              \* wParam of WM_INPUT: background
RealHandle == 101               \* lParam of WM_INPUT: an HRAWINPUT of the OS

Up == [tip |-> FALSE, id |-> 0, x |-> 0, y |-> 0]
Touch(id, p) == [tip |-> TRUE, id |-> id, x |-> p.x, y |-> p.y]

HidInput(d, dwCount, numContacts, s1, s2) ==
    [dwType |-> "HID", hDevice |-> d,
     input |-> [dwCount |-> dwCount, numContacts |-> numContacts,
                slots |-> [l \in Links |-> IF l = 1 THEN s1 ELSE IF l = 2 THEN s2 ELSE Up]]]
MouseInput == [dwType |-> "MOUSE", hDevice |-> "M", input |-> NoRawInput.input]
KeyboardInput == [dwType |-> "KEYBOARD", hDevice |-> "K", input |-> NoRawInput.input]

HotkeyIds == {HOTKEY_ENABLE_ID, HOTKEY_CALIBRATION_ID, HOTKEY_LOAD_ID, HOTKEY_SAVE_ID}

\* Messages other than WM_INPUT.
PlainMessage(hWnd) ==
    \/ \E id \in HotkeyIds, fopenOK \in BOOLEAN :
          WndProc(hWnd, "WM_HOTKEY", id, 0, NoRawInput, "none", fopenOK)
    \/ \E m \in {"WM_MOUSEMOVE", "WM_PAINT"} :
          WndProc(hWnd, m, 0, 0, NoRawInput, "none", TRUE)

----------------------------------------------------------------------------
(* SpecWnd: the window-procedure interposition.  Windows are created,       *)
(* inspected and re-subclassed by the host, receive messages, and are       *)
(* restored at process detach.                                              *)

WndMessage ==
    \E hWnd \in Hwnds :
      \/ \E id \in {HOTKEY_ENABLE_ID}, m \in {"WM_HOTKEY", "WM_MOUSEMOVE", "WM_PAINT"} :
            WndProc(hWnd, m, id, 0, NoRawInput, "none", TRUE)
      \/ \E ri \in {MouseInput, KeyboardInput} :
            WndProc(hWnd, "WM_INPUT", RIM_INPUT, RealHandle, ri, "none", TRUE)

WndAttach == \E commitOK \in BOOLEAN : ProcessAttach(<<>>, commitOK)
WndCreate == \E hWnd \in Hwnds \cup {NULL}, p \in HostProcs : CreateWindow(hWnd, p)
WndGet == \E hWnd \in Hwnds \cup {NULL}, i \in {"GWLP_WNDPROC", "GWLP_USERDATA"} :
             GetWindowLong(hWnd, i)
WndSet == \E hWnd \in Hwnds \cup {NULL}, i \in {"GWLP_WNDPROC", "GWLP_USERDATA"},
             p \in Procs : SetWindowLong(hWnd, i, p)
WndRestore == \E hWnd \in Hwnds \cup {NULL} : UninitRestore(hWnd)
WndDetach == \E commitOK \in BOOLEAN : UninitDetach(commitOK)

NextWnd ==
    \/ WndAttach
    \/ WndCreate
    \/ WndGet
    \/ WndSet
    \/ WndMessage
    \/ ProcessDetach
    \/ WndRestore
    \/ UninitClear
    \/ WndDetach

SpecWnd == Init /\ [][NextWnd]_vars

----------------------------------------------------------------------------
(* SpecInput: the WM_INPUT path and the hotkeys on one UI thread, with a    *)
(* two-slot touchpad (D1), a touchpad whose descriptor has no contact       *)
(* count (DB), a mouse and a keyboard.                                      *)

PA == MkPoint(100, 100)
PB == MkPoint(900, 400)

\* Reports of the two-slot touchpad D1.
NoReports == HidInput("D1", 0, 0, Up, Up)                        \* dwCount = 0
OneContact == HidInput("D1", 1, 1, Touch(1, PA), Up)
TwoContacts == HidInput("D1", 1, 2, Touch(1, PA), Touch(2, PB))
AllLifted == HidInput("D1", 1, 2, Up, Up)
\* A report of DB, whose descriptor cannot be parsed.
BadDevice == HidInput("DB", 1, 1, Touch(1, PA), Up)

\* The WM_INPUT deliveries: <<raw input, failing call, wParam>>.
InDeliveries ==
    { <<ri, "none", RIM_INPUT>> :
        ri \in {MouseInput, KeyboardInput, OneContact, AllLifted, BadDevice} }
    \cup { <<OneContact, f, RIM_INPUT>> : f \in FailPoints \ {"none"} }
    \cup { <<KeyboardInput, "none", RIM_INPUTSINK>>, <<MouseInput, "header", RIM_INPUT>>,
           <<NoReports, "none", RIM_INPUT>> }

InAttach == \E list \in {<<>>, <<"D1">>, <<"D1", "DB">>}, commitOK \in BOOLEAN :
               ProcessAttach(list, commitOK)
InCreate == CreateWindow(1, "P1")
InMessage == PlainMessage(1)
InRawInput ==
    \E d \in InDeliveries :
        WndProc(1, "WM_INPUT", d[3], RealHandle, d[1], d[2], TRUE)

NextInput ==
    \/ InAttach
    \/ InCreate
    \/ InMessage
    \/ InRawInput

SpecInput == Init /\ [][NextInput]_vars

----------------------------------------------------------------------------
(* SpecPrimary: primary-contact tracking on one UI thread.  Reports of the  *)
(* two-slot touchpad D1 carry any contact ids of PrimaryIds in either slot; *)
(* absolute mode and calibration mode are toggled in between.               *)

PrimaryIds == {0, 7, 9, 11}
PrimarySlots == {Up} \cup { Touch(id, PA) : id \in PrimaryIds }

PrAttach == \E commitOK \in BOOLEAN : ProcessAttach(<<"D1">>, commitOK)
PrCreate == CreateWindow(1, "P1")
PrHotkey ==
    \E id \in {HOTKEY_ENABLE_ID, HOTKEY_CALIBRATION_ID} :
        WndProc(1, "WM_HOTKEY", id, 0, NoRawInput, "none", TRUE)
PrReport ==
    \E s1 \in PrimarySlots, s2 \in PrimarySlots :
        WndProc(1, "WM_INPUT", RIM_INPUT, RealHandle,
                HidInput("D1", 1, 2, s1, s2), "none", TRUE)

NextPrimary ==
    \/ PrAttach
    \/ PrCreate
    \/ PrHotkey
    \/ PrReport

SpecPrimary == Init /\ [][NextPrimary]_vars

----------------------------------------------------------------------------
(* SpecRid: the sentinel-handle retrieval on two UI threads.  Thread T1     *)
(* receives every kind of WM_INPUT (spliced, without contacts, mouse,       *)
(* during calibration, failing) and T2 background reports; each thread      *)
(* calls GetRawInputData with the sentinel and with an OS handle.           *)

\* A buffer size, a header size and a command the retrieval does not accept.
ShortHeader == 16
RID_OTHER == "RID_OTHER"

\* GetRawInputData calls: <<hRawInput, uiCommand, pData = NULL, *pcbSize,
\* cbSizeHeader>>.
RidCalls ==
    { <<MAGIC_HANDLE, "RID_HEADER", FALSE, SIZEOF_RAWINPUTHEADER, SIZEOF_RAWINPUTHEADER>>,
      <<MAGIC_HANDLE, "RID_HEADER", FALSE, SIZEOF_RAWINPUT, SIZEOF_RAWINPUTHEADER>>,
      <<MAGIC_HANDLE, "RID_INPUT", FALSE, SIZEOF_RAWINPUT, SIZEOF_RAWINPUTHEADER>>,
      <<MAGIC_HANDLE, "RID_HEADER", TRUE, 0, SIZEOF_RAWINPUTHEADER>>,
      <<MAGIC_HANDLE, "RID_INPUT", TRUE, 0, SIZEOF_RAWINPUTHEADER>>,
      <<MAGIC_HANDLE, "RID_HEADER", FALSE, SIZEOF_RAWINPUTHEADER - 1, SIZEOF_RAWINPUTHEADER>>,
      <<MAGIC_HANDLE, "RID_INPUT", FALSE, SIZEOF_RAWINPUT - 1, SIZEOF_RAWINPUTHEADER>>,
      <<MAGIC_HANDLE, "RID_INPUT", FALSE, SIZEOF_RAWINPUT, ShortHeader>>,
      <<MAGIC_HANDLE, "RID_INPUT", TRUE, 0, ShortHeader>>,
      <<MAGIC_HANDLE, RID_OTHER, FALSE, SIZEOF_RAWINPUT, SIZEOF_RAWINPUTHEADER>>,
      <<MAGIC_HANDLE, RID_OTHER, TRUE, 0, SIZEOF_RAWINPUTHEADER>>,
      <<RealHandle, "RID_INPUT", FALSE, SIZEOF_RAWINPUT, SIZEOF_RAWINPUTHEADER>> }

\* The WM_INPUT deliveries of T1's window: <<raw input, failing call, wParam>>.
RidDeliveries ==
    { <<OneContact, "none", RIM_INPUT>>, <<OneContact, "none", RIM_INPUTSINK>>,
      <<OneContact, "buffer", RIM_INPUT>>, <<AllLifted, "none", RIM_INPUT>>,
      <<MouseInput, "none", RIM_INPUT>> }

RidAttach == \E commitOK \in BOOLEAN : ProcessAttach(<<"D1">>, commitOK)
RidCreate == \E hWnd \in Hwnds : CreateWindow(hWnd, "P1")
RidHotkey ==
    \E id \in {HOTKEY_ENABLE_ID, HOTKEY_CALIBRATION_ID} :
        WndProc(1, "WM_HOTKEY", id, 0, NoRawInput, "none", TRUE)
RidInput ==
    \/ \E d \in RidDeliveries :
          WndProc(1, "WM_INPUT", d[3], RealHandle, d[1], d[2], TRUE)
    \/ WndProc(2, "WM_INPUT", RIM_INPUTSINK, RealHandle, OneContact, "none", TRUE)
RidRetrieve ==
    \E t \in Threads, c \in RidCalls : GetRawInputData(t, c[1], c[2], c[3], c[4], c[5])

NextRid ==
    \/ RidAttach
    \/ RidCreate
    \/ RidHotkey
    \/ RidInput
    \/ RidRetrieve

SpecRid == Init /\ [][NextRid]_vars

----------------------------------------------------------------------------
(* SpecPads: two touchpads on one UI thread.  Reports of D1 (two slots)     *)
(* and of D2 (one slot) are delivered in any order, with absolute mode and  *)
(* calibration mode toggled in between.                                     *)

PadSlots == {Up, Touch(7, PA), Touch(9, PA)}

NextPads ==
    \/ \E commitOK \in BOOLEAN : ProcessAttach(<<"D1", "D2">>, commitOK)
    \/ CreateWindow(1, "P1")
    \/ \E id \in {HOTKEY_ENABLE_ID, HOTKEY_CALIBRATION_ID} :
          WndProc(1, "WM_HOTKEY", id, 0, NoRawInput, "none", TRUE)
    \/ \E s1 \in PadSlots, s2 \in PadSlots :
          WndProc(1, "WM_INPUT", RIM_INPUT, RealHandle,
                  HidInput("D1", 1, 2, s1, s2), "none", TRUE)
    \/ WndProc(1, "WM_INPUT", RIM_INPUT, RealHandle,
               HidInput("D2", 1, 1, Touch(5, PB), Up), "none", TRUE)

SpecPads == Init /\ [][NextPads]_vars

----------------------------------------------------------------------------
(* SpecRace: two UI threads, each with a window, handle reports of          *)
(* touchpads that were or were not attached when the DLL was loaded.  The   *)
(* handlers run concurrently and interleave at their accesses to g_devices. *)

NextRace ==
    \/ \E list \in {<<>>, <<"D3">>}, commitOK \in BOOLEAN : ProcessAttach(list, commitOK)
    \/ \E hWnd \in Hwnds : CreateWindow(hWnd, "P1")
    \/ \E hWnd \in Hwnds :
          WndProc(hWnd, "WM_HOTKEY", HOTKEY_ENABLE_ID, 0, NoRawInput, "none", TRUE)
    \/ \E hWnd \in Hwnds, d \in {"D1", "D3"} : GdiCheck(hWnd, d)
    \/ \E t \in Threads : GdiInsert(t)
    \/ \E t \in Threads, fault \in BOOLEAN : GdiUse(t, fault)

SpecRace == Init /\ [][NextRace]_vars

----------------------------------------------------------------------------
(* SpecCal: calibration sessions and mapping on one UI thread with the      *)
(* one-slot touchpad D3.  The user toggles absolute mode and calibration    *)
(* mode; reports of single contacts at PA, PB and PM are delivered in       *)
(* between, and the host retrieves the spliced record.                      *)

PM == MkPoint(500, 250)

NextCal ==
    \/ \E commitOK \in BOOLEAN : ProcessAttach(<<"D3">>, commitOK)
    \/ CreateWindow(1, "P1")
    \/ \E id \in {HOTKEY_ENABLE_ID, HOTKEY_CALIBRATION_ID} :
          WndProc(1, "WM_HOTKEY", id, 0, NoRawInput, "none", TRUE)
    \/ \E p \in {PA, PB, PM} :
          WndProc(1, "WM_INPUT", RIM_INPUT, RealHandle,
                  HidInput("D3", 1, 1, Touch(1, p), Up), "none", TRUE)
    \/ GetRawInputData("T1", MAGIC_HANDLE, "RID_INPUT", FALSE, SIZEOF_RAWINPUT,
                       SIZEOF_RAWINPUTHEADER)

SpecCal == Init /\ [][NextCal]_vars

----------------------------------------------------------------------------
(* SpecFile: persistence of the calibration on one UI thread with the       *)
(* one-slot touchpad D3.  The user calibrates with contacts at PA and PB,   *)
(* saves, loads, and replaces the calibration file.                         *)

Line(key, v) == [key |-> key, value |-> FormatLong(v)]
\* Files the user puts in place of atcalibration.conf: the four bounds
\* {10, 20, 1200, 800} with a line of an unknown key before, between and
\* after them; a file with one bound; a file whose second line has a word
\* where the number should be.
UserFiles ==
    { << Line("SPEED", 7), Line("LEFT", 10), Line("TOP", 20), Line("RIGHT", 1200),
         Line("BOTTOM", 800) >>,
      << Line("LEFT", 10), Line("TOP", 20), Line("SPEED", -7), Line("RIGHT", 1200),
         Line("BOTTOM", 800) >>,
      << Line("LEFT", 10), Line("TOP", 20), Line("RIGHT", 1200), Line("BOTTOM", 800),
         Line("SPEED", 7) >>,
      << Line("LEFT", 10) >>,
      << Line("LEFT", 10), [key |-> "NOTE", value |-> NotANumber], Line("TOP", 20) >> }

\* The user replaces the calibration file.
EditFile(lines) ==
    /\ pc = "running"
    /\ calFile' = FileOf(lines)
    /\ saved' = NotSaved
    /\ out' = [op |-> "EditFile"]
    /\ UNCHANGED <<pc, detours, osWndProc, g_originalWndProcs, g_devices, g_enabled,
                   g_inCalibrationMode, g_lastDevice, t_calibrationArea,
                   t_injectedInput, t_primaryContactID, hostKnows, created,
                   believed, restored, lastSpliced, seq, lastPrimary, gdi, session>>

NextFile ==
    \/ \E commitOK \in BOOLEAN : ProcessAttach(<<"D3">>, commitOK)
    \/ CreateWindow(1, "P1")
    \/ \E id \in {HOTKEY_CALIBRATION_ID, HOTKEY_LOAD_ID, HOTKEY_SAVE_ID},
          fopenOK \in BOOLEAN :
          WndProc(1, "WM_HOTKEY", id, 0, NoRawInput, "none", fopenOK)
    \/ \E p \in {PA, PB} :
          WndProc(1, "WM_INPUT", RIM_INPUT, RealHandle,
                  HidInput("D3", 1, 1, Touch(1, p), Up), "none", TRUE)
    \/ \E lines \in UserFiles : EditFile(lines)

SpecFile == Init /\ [][NextFile]_vars

----------------------------------------------------------------------------
(* SpecMap: the coordinate mapper as a function.  The initial states hold   *)
(* a rectangle and a point drawn from values around zero, around the        *)
(* descriptor ranges, around 2^15 and 2^16 and at the ends of LONG; the     *)
(* only step applies AT_TouchpadToScreen to them.                           *)

\* Rectangles with left <= right and top <= bottom, the rectangle
\* {10, LONG_MAX, LONG_MIN, LONG_MIN} a Load of a file with one bound gives,
\* and points.
MapInputs ==
    LET xs == {LONG_MIN, -1, 0, 1, 500, 1000, 32767, 32768, 65535, LONG_MAX}
        ys == {LONG_MIN, -1, 0, 250, 500, 32768, LONG_MAX}
        rects == { MkRect(l, t, r, b) : l \in xs, r \in xs, t \in {LONG_MIN, 0},
                                        b \in {0, 500, 32768, LONG_MAX} }
    IN  { [op |-> "input", rect |-> R, point |-> MkPoint(x, y)] :
            R \in {Q \in rects : Q.left <= Q.right /\ Q.top <= Q.bottom}
                   \cup {MkRect(10, LONG_MAX, LONG_MIN, LONG_MIN)},
            x \in xs, y \in ys }

InitMap == Fresh /\ out \in MapInputs

MapPoint ==
    /\ out.op = "input"
    /\ LET r == AT_TouchpadToScreen(out.rect, out.point)
       IN  out' = [op |-> "AT_TouchpadToScreen", rect |-> out.rect, point |-> out.point,
                   fault |-> r.fault, x |-> r.x, y |-> r.y]
    /\ UNCHANGED <<pc, detours, osWndProc, g_originalWndProcs, hostKnows, restored,
                   created, believed>>
    /\ Quiet

SpecMap == InitMap /\ [][MapPoint]_vars

----------------------------------------------------------------------------
(* SpecParse: the device cache on one UI thread.  Touchpads with two        *)
(* slots (D1), with one complete slot and one without tip switch (D2),      *)
(* with one slot (D3) and without contact count (DB) are attached when the  *)
(* DLL is loaded or report later; the OS calls that list and query the      *)
(* devices and that read the descriptor can fail.                           *)

NextParse ==
    \/ \E list \in {<<>>, <<"D2">>, <<"D3", "DB">>}, fail \in AttachFailPoints,
          commitOK \in BOOLEAN :
          DllMainAttach(list, fail, commitOK)
    \/ CreateWindow(1, "P1")
    \/ WndProc(1, "WM_HOTKEY", HOTKEY_ENABLE_ID, 0, NoRawInput, "none", TRUE)
    \/ \E d \in {"D1", "D2", "DB"}, fail \in {"none", "preparsed", "caps"} :
          WndProc(1, "WM_INPUT", RIM_INPUT, RealHandle,
                  HidInput(d, 1, 1, Touch(1, PA), Up), fail, TRUE)

SpecParse == Init /\ [][NextParse]_vars

----------------------------------------------------------------------------
(* SpecDecode: the decoder on one UI thread in absolute mode, with the      *)
(* three-slot touchpad D4 and the two-slot touchpad D1.  Reports of D4      *)
(* carry a contact count of 0, 2, 3 or 5 and any combination of tip         *)
(* switches, reports of D1 the count 5; a report can hold zero HID reports, *)
(* and a HidP_* accessor can fail.                                          *)

\* A report of D4 with contact count n: link collection l holds the contact
\* of id 10 + l if tips[l], and no contact otherwise.
Report3(dwCount, n, tips) ==
    [HidInput("D4", dwCount, n, IF tips[1] THEN Touch(11, PA) ELSE Up,
                                IF tips[2] THEN Touch(12, PB) ELSE Up)
       EXCEPT !.input.slots[3] = IF tips[3] THEN Touch(13, PM) ELSE Up]

NextDecode ==
    \/ \E commitOK \in BOOLEAN : ProcessAttach(<<"D4", "D1">>, commitOK)
    \/ CreateWindow(1, "P1")
    \/ WndProc(1, "WM_HOTKEY", HOTKEY_ENABLE_ID, 0, NoRawInput, "none", TRUE)
    \/ \E n \in {0, 2, 3, 5}, tips \in [1..3 -> BOOLEAN] :
          WndProc(1, "WM_INPUT", RIM_INPUT, RealHandle, Report3(1, n, tips), "none", TRUE)
    \/ \E fail \in {"none", "decode"} :
          WndProc(1, "WM_INPUT", RIM_INPUT, RealHandle,
                  Report3(0, 3, [l \in 1..3 |-> TRUE]), fail, TRUE)
    \/ WndProc(1, "WM_INPUT", RIM_INPUT, RealHandle,
               Report3(1, 3, [l \in 1..3 |-> TRUE]), "decode", TRUE)
    \/ WndProc(1, "WM_INPUT", RIM_INPUT, RealHandle,
               HidInput("D1", 1, 5, Touch(1, PA), Touch(2, PB)), "none", TRUE)

SpecDecode == Init /\ [][NextDecode]_vars

----------------------------------------------------------------------------
(* Claims about the window-procedure interposition (SpecWnd).               *)

Created(h) == osWndProc[h] # NoWindow
ProcSlotOp(op) ==
    /\ out.op = op
    /\ out.nIndex = "GWLP_WNDPROC"
    /\ out.hWnd \in Hwnds
    /\ Created(out.hWnd)

\* C8 (a): a hooked read of the procedure slot of a created window returns
\* the procedure the host installed last, never the shim's.
C8_Read ==
    ProcSlotOp("GetWindowLongPtrW") =>
        out.ret = believed[out.hWnd] /\ out.ret # Shim

\* C8 (b): a hooked write returns the pointer stored before it and leaves
\* the new pointer in the hook map.
C8_Write ==
    ProcSlotOp("SetWindowLongPtrW") =>
        /\ out.ret = out.believedBefore
        /\ out.ret # Shim
        /\ g_originalWndProcs[out.hWnd] = out.dwNewLong

\* C8 (c): while the shim runs, the OS slot of every created window holds
\* the shim's procedure.
C8_Live ==
    pc = "running" => \A h \in Hwnds : Created(h) => osWndProc[h] = Shim

\* C8: interposition transparency: hooked reads return the host's procedure,
\* hooked writes swap the stored pointer, and the shim's procedure stays in
\* the OS slot.
C8_Transparency == C8_Read /\ C8_Write /\ C8_Live

\* C8 witness: a window re-subclassed by the host is read back.
C8_Witness ==
    /\ ProcSlotOp("GetWindowLongPtrW")
    /\ created[out.hWnd] # believed[out.hWnd]
    /\ out.ret = believed[out.hWnd]
    /\ osWndProc[out.hWnd] = Shim

\* C9: every entry of the hook map is the procedure the host believes is
\* installed on that window and never the shim's own procedure, so a chained
\* message never re-enters the shim.
C9_HookMap ==
    /\ \A h \in DOMAIN g_originalWndProcs :
          /\ g_originalWndProcs[h] # Shim
          /\ h \in Hwnds => g_originalWndProcs[h] = believed[h]
    /\ (out.op = "WndProc" /\ out.ret = "chained") => out.callProc \in HostProcs

\* C9 witness: a message is chained to a procedure the host installed after
\* creation.
C9_Witness ==
    /\ out.op = "WndProc" /\ out.ret = "chained"
    /\ created[out.hWnd] # believed[out.hWnd]
    /\ out.callProc = g_originalWndProcs[out.hWnd]

\* C10: at process detach every window of the hook map gets the procedure
\* the host installed last back into its OS slot before the interceptions
\* are detached (they stay attached during the restore loop), and the hook
\* map is empty once the loop is over.
C10_Teardown ==
    /\ pc = "restoring" => detours
    /\ pc \in {"detaching", "detached", "detach failed"} =>
          /\ \A h \in Hwnds : Created(h) => osWndProc[h] = believed[h]
          /\ DOMAIN g_originalWndProcs = {}

\* C10 witness: the detach went through with two windows, one re-subclassed.
C10_Witness ==
    /\ pc = "detached" /\ ~detours
    /\ \A h \in Hwnds : Created(h)
    /\ \E h \in Hwnds : created[h] # believed[h]

----------------------------------------------------------------------------
(* Claims about the WM_INPUT path and the hotkeys (SpecInput).              *)

InputOp == out.op = "WndProc" /\ out.message = "WM_INPUT"
StoredOriginal == g_originalWndProcs[out.hWnd]

\* C1: with enabled and in_calibration both false, a WM_INPUT of any type is
\* forwarded to the stored original procedure with wParam and lParam as
\* delivered, and the device cache, the most-recent device, the primary
\* contact id and the synthetic record stay as they were.
C1_Passthrough ==
    (InputOp /\ ~out.enabled /\ ~out.inCalibrationMode) =>
        /\ out.exc = NoExc
        /\ out.ret = "chained"
        /\ out.callProc = StoredOriginal
        /\ out.callW = out.wParam
        /\ out.callL = out.lParam
        /\ out.changed \cap {"g_devices", "g_lastDevice", "t_primaryContactID",
                             "t_injectedInput"} = {}

\* C1 witness: a touchpad report passes through after absolute mode was
\* switched off again (a report was spliced on this thread before).
C1_Witness ==
    /\ InputOp /\ ~out.enabled /\ ~out.inCalibrationMode
    /\ out.dwType = "HID"
    /\ out.hDevice \in DOMAIN g_devices
    /\ lastSpliced[out.thread] # NoMsg
    /\ out.ret = "chained" /\ out.callL = RealHandle

\* C2: no exception leaves the window procedure, whatever the message and
\* the state.
C2_NoEscape ==
    out.op = "WndProc" => out.exc = NoExc

\* C3 as stated: a WM_INPUT whose handling fails while the shim is engaged
\* is dropped, the host's procedure is not invoked for it.
C3_Dropped ==
    (InputOp /\ out.caught # NoExc) => out.callProc = NoProc

\* C3 as the code has it: an OS or HID failure while a WM_INPUT is handled
\* does not leave the window procedure; the message is then forwarded to the
\* stored original procedure with wParam and lParam as delivered, never with
\* the sentinel, and no synthetic record is written.
C3_Forwarded ==
    InputOp =>
        /\ out.exc \notin {"win32_error", "hid_error", "runtime_error"}
        /\ out.caught # NoExc =>
              /\ out.enabled \/ out.inCalibrationMode
              /\ out.ret = "chained"
              /\ out.callProc = StoredOriginal
              /\ out.callW = out.wParam
              /\ out.callL = out.lParam
              /\ ~out.sentinel
              /\ "t_injectedInput" \notin out.changed

\* C3 witness: a HID decoding failure of a report of a cached touchpad is
\* caught and the message reaches the host's procedure.
C3_Witness ==
    /\ InputOp /\ out.caught = "hid_error"
    /\ out.hDevice \in DOMAIN g_devices
    /\ out.callProc \in HostProcs /\ out.callL = RealHandle

\* C4: while in_calibration is true, handling a WM_INPUT writes no synthetic
\* record and never invokes the host's procedure with the sentinel lParam.
C4_NoSynthetic ==
    (InputOp /\ out.inCalibrationMode) =>
        /\ ~out.sentinel
        /\ "t_injectedInput" \notin out.changed
        /\ out.callProc # NoProc => out.callL # MAGIC_HANDLE

\* C4 witness: a report with a contact is accumulated while calibration mode
\* and absolute mode are both on.
C4_Witness ==
    /\ InputOp /\ out.inCalibrationMode /\ out.enabled
    /\ out.ids # <<>>
    /\ "t_calibrationArea" \in out.changed
    /\ out.ret = "zero"

\* C17: while the shim is engaged, a WM_INPUT whose raw input is mouse
\* input is consumed (the shim returns 0 and calls no procedure of the
\* host), and one whose raw input is neither mouse nor HID input is
\* forwarded to the stored original procedure with wParam and lParam as
\* delivered; neither changes any state of the shim.
C17_NonHid ==
    (InputOp /\ (out.enabled \/ out.inCalibrationMode)
             /\ out.dwType # "HID" /\ out.exc = NoExc /\ out.caught = NoExc) =>
        /\ out.changed = {}
        /\ ~out.sentinel
        /\ IF out.dwType = "MOUSE"
           THEN out.ret = "zero" /\ out.callProc = NoProc
           ELSE /\ out.ret = "chained" /\ out.callProc = StoredOriginal
                /\ out.callW = out.wParam /\ out.callL = out.lParam

\* C17 witness: a background keyboard WM_INPUT was forwarded unchanged in
\* absolute mode.
C17_Witness ==
    /\ InputOp /\ out.enabled /\ out.dwType = "KEYBOARD"
    /\ out.wParam = RIM_INPUTSINK
    /\ out.ret = "chained" /\ out.callProc = "P1"
    /\ out.callW = RIM_INPUTSINK /\ out.callL = RealHandle

----------------------------------------------------------------------------
(* Claims about primary-contact tracking (SpecPrimary).                     *)

SplicedOp == out.op = "WndProc" /\ out.chosen # -1

\* C5: for each spliced report, a contact whose id is the thread's sticky
\* primary id is chosen wherever it sits in the report; if there is none the
\* first contact of the report is chosen and its id becomes the sticky id.
\* On a fresh thread the reports [7,9], [9,7], [9], [9,11] give the primary
\* ids 7, 7, 9, 9.
C5_PrimaryContact ==
    /\ SplicedOp =>
          LET before == out.primaryBefore
              expected == IF \E i \in DOMAIN out.ids : out.ids[i] = before
                          THEN before ELSE out.ids[1]
          IN  /\ out.chosen = expected
              /\ t_primaryContactID[out.thread] = expected
    /\ (SplicedOp /\ seq[out.thread] \in 1..Len(PrimarySeq)) =>
          /\ out.ids = PrimarySeq[seq[out.thread]]
          /\ out.chosen = PrimaryExpected[seq[out.thread]]

\* C5 witness: the four reports of the example have been spliced in order on
\* a fresh thread; the last one [9,11] kept the sticky id 9.
C5_Witness ==
    /\ SplicedOp /\ seq[out.thread] = Len(PrimarySeq)
    /\ out.ids = <<9, 11>> /\ out.chosen = 9 /\ out.primaryBefore = 9

\* C18: for the forwarded reports of one thread, reports of several
\* touchpads interleaved, the contact chosen as primary for a device's
\* previous forwarded report is chosen again if the device's next report
\* still holds it.
C18_PerDevice ==
    (SplicedOp /\ out.sentinel /\ out.ret = "chained"
               /\ \E i \in DOMAIN out.ids : out.ids[i] = out.devicePrimaryBefore) =>
        out.chosen = out.devicePrimaryBefore

----------------------------------------------------------------------------
(* Claims about the sentinel-handle retrieval (SpecRid).                    *)

\* The record retrieved from thread t with the sentinel handle.
Retrieved(t) ==
    AT_GetRawInputDataHook(t, MAGIC_HANDLE, "RID_INPUT", FALSE, SIZEOF_RAWINPUT,
                           SIZEOF_RAWINPUTHEADER).data

\* A GetRawInputData call with the sentinel handle on a thread to which a
\* WM_INPUT has been forwarded with the sentinel lParam.
SentinelCall ==
    /\ out.op = "GetRawInputData"
    /\ out.hRawInput = MAGIC_HANDLE
    /\ lastSpliced[out.thread] # NoMsg

\* C6: after a WM_INPUT was forwarded with the sentinel, a retrieval with the
\* sentinel handle on that thread fails with (UINT)-1 for a wrong header size
\* or an unknown command, writes the required size and returns 0 for a null
\* buffer, fails with (UINT)-1 and copies nothing for a buffer that is too
\* small, and otherwise copies exactly the synthetic header (RID_HEADER) or
\* the full synthetic record (RID_INPUT) and returns its size.
C6_Retrieval ==
    SentinelCall =>
        LET rec == t_injectedInput[out.thread]
            required == IF out.uiCommand = "RID_HEADER" THEN SIZEOF_RAWINPUTHEADER
                        ELSE SIZEOF_RAWINPUT
        IN  /\ ~out.delegated
            /\ IF \/ out.cbSizeHeader # SIZEOF_RAWINPUTHEADER
                  \/ out.uiCommand \notin {"RID_HEADER", "RID_INPUT"}
               THEN out.ret = UINT_ERROR /\ ~out.copied /\ out.cbSize = out.cbSizeIn
               ELSE IF out.pDataNull
               THEN out.ret = 0 /\ ~out.copied /\ out.cbSize = required
               ELSE IF out.cbSizeIn < required
               THEN out.ret = UINT_ERROR /\ ~out.copied
               ELSE /\ out.ret = required /\ out.copied
                    /\ out.data = IF out.uiCommand = "RID_HEADER"
                                  THEN [dwType |-> "MOUSE", dwSize |-> SIZEOF_RAWINPUT,
                                        wParam |-> lastSpliced[out.thread].wParam,
                                        hDevice |-> lastSpliced[out.thread].hDevice]
                                  ELSE rec
                    /\ rec.dwType = "MOUSE" /\ rec.dwSize = SIZEOF_RAWINPUT
                    /\ rec.usFlags = MOUSE_MOVE_ABSOLUTE
                    /\ rec.hDevice = lastSpliced[out.thread].hDevice
                    /\ rec.wParam = lastSpliced[out.thread].wParam

\* C6 witness: the full record of a spliced background report is retrieved.
C6_Witness ==
    /\ SentinelCall /\ out.uiCommand = "RID_INPUT" /\ out.copied
    /\ out.ret = SIZEOF_RAWINPUT
    /\ out.data.hDevice = "D1" /\ out.data.wParam = RIM_INPUTSINK
    /\ out.data.usFlags = MOUSE_MOVE_ABSOLUTE

\* C7 as stated: after every WM_INPUT delivered to an engaged shim on a
\* thread that has spliced before, the record a sentinel retrieval returns
\* on that thread is the one of that WM_INPUT.
C7_MostRecentDelivered ==
    (InputOp /\ (out.enabled \/ out.inCalibrationMode)
             /\ lastSpliced[out.thread] # NoMsg) =>
        /\ Retrieved(out.thread).hDevice = out.hDevice
        /\ Retrieved(out.thread).wParam = out.wParam

\* C7 as the code has it: on every thread, in every state, the record a
\* sentinel retrieval returns is the one of the most recent WM_INPUT that
\* was forwarded with the sentinel lParam on that thread (the zero record
\* if there was none); mouse, contact-less, calibration-mode and failed
\* WM_INPUTs leave it as it was.
C7_MostRecentSpliced ==
    /\ \A t \in Threads :
          IF lastSpliced[t] = NoMsg THEN Retrieved(t) = ZeroInput
          ELSE /\ Retrieved(t).hDevice = lastSpliced[t].hDevice
               /\ Retrieved(t).wParam = lastSpliced[t].wParam
               /\ Retrieved(t).usFlags = MOUSE_MOVE_ABSOLUTE
    /\ (SentinelCall /\ out.copied) =>
          /\ out.data.hDevice = lastSpliced[out.thread].hDevice
          /\ out.data.wParam = lastSpliced[out.thread].wParam
    /\ (InputOp /\ out.sentinel /\ out.ret = "chained") =>
          /\ out.callL = MAGIC_HANDLE
          /\ lastSpliced[out.thread] = [hDevice |-> out.hDevice, wParam |-> out.wParam]

\* C7 witness: a mouse WM_INPUT was swallowed after a background touchpad
\* report had been spliced; the record is still the touchpad report's.
C7_Witness ==
    /\ InputOp /\ out.enabled /\ out.dwType = "MOUSE" /\ out.ret = "zero"
    /\ lastSpliced[out.thread] = [hDevice |-> "D1", wParam |-> RIM_INPUTSINK]
    /\ Retrieved(out.thread).hDevice = "D1"
    /\ Retrieved(out.thread).wParam # out.wParam

----------------------------------------------------------------------------
(* Claims about calibration.                                                *)

ToggleOp ==
    out.op = "WndProc" /\ out.message = "WM_HOTKEY" /\ out.wParam = HOTKEY_CALIBRATION_ID

\* C11: every calibration-toggle hotkey flips g_inCalibrationMode; a toggle
\* from on to off commits every accumulated rectangle as the override of
\* its device, clears the accumulators and leaves g_inCalibrationMode false.
C11_ToggleFlips ==
    ToggleOp =>
        /\ g_inCalibrationMode = ~out.inCalibrationMode
        /\ out.inCalibrationMode =>
              /\ ~g_inCalibrationMode
              /\ t_calibrationArea[out.thread] = EmptyMap
              /\ \A d \in DOMAIN out.areaBefore :
                    /\ d \in DOMAIN g_devices
                    /\ g_devices[d].hasOverride
                    /\ g_devices[d].touchAreaOverride = out.areaBefore[d]

\* The least and the greatest element of a non-empty set of integers.
SetMin(S) == CHOOSE m \in S : \A x \in S : m <= x
SetMax(S) == CHOOSE m \in S : \A x \in S : m >= x

\* A HID report whose contacts were added to the accumulators.
CalibrationOp == InputOp /\ out.inCalibrationMode /\ out.points # <<>>

\* The point of the contact chosen as primary by the last report.
ChosenPoint ==
    out.points[CHOOSE i \in DOMAIN out.ids :
                  /\ out.ids[i] = out.chosen
                  /\ \A j \in DOMAIN out.ids : out.ids[j] = out.chosen => i <= j]

\* Where a coordinate p maps for the bounds lo..hi (hi - lo < 32768).
Scaled(lo, hi, p) ==
    LET c == IF p < lo THEN lo ELSE IF p > hi THEN hi ELSE p
    IN  ((c - lo) * 65536) \div (hi - lo + 1)

\* C12: a calibration session.  Every report delivered in calibration mode
\* extends the device's accumulator to the bounding box of its contacts (a
\* device without accumulator starts from the box of the first report: the
\* contacts (100,100) and (900,400) give {100,100,900,400}); leaving
\* calibration mode makes each accumulator the override of its device; and
\* every report forwarded for a device with an override is mapped with the
\* override, not with the touch area of the descriptor.
C12_Session ==
    /\ CalibrationOp =>
          LET d == out.hDevice
              fresh == d \notin DOMAIN out.areaBefore
              xs == {out.points[i].x : i \in DOMAIN out.points}
              ys == {out.points[i].y : i \in DOMAIN out.points}
              now == t_calibrationArea[out.thread][d]
          IN  /\ now.left = SetMin(xs \cup (IF fresh THEN {} ELSE {out.areaBefore[d].left}))
              /\ now.top = SetMin(ys \cup (IF fresh THEN {} ELSE {out.areaBefore[d].top}))
              /\ now.right = SetMax(xs \cup (IF fresh THEN {} ELSE {out.areaBefore[d].right}))
              /\ now.bottom = SetMax(ys \cup (IF fresh THEN {} ELSE {out.areaBefore[d].bottom}))
              /\ (fresh /\ out.points = <<PA>>) => now = MkRect(100, 100, 100, 100)
              /\ (~fresh /\ out.areaBefore[d] = MkRect(100, 100, 100, 100)
                         /\ out.points = <<PB>>) => now = MkRect(100, 100, 900, 400)
    /\ (ToggleOp /\ out.inCalibrationMode /\ out.exc = NoExc) =>
          \A d \in DOMAIN out.areaBefore :
              /\ g_devices[d].hasOverride
              /\ g_devices[d].touchAreaOverride = out.areaBefore[d]
    /\ (SplicedOp /\ out.sentinel /\ g_devices[out.hDevice].hasOverride) =>
          LET R == g_devices[out.hDevice].touchAreaOverride
              rec == t_injectedInput[out.thread]
          IN  /\ rec.lLastX = Scaled(R.left, R.right, ChosenPoint.x)
              /\ rec.lLastY = Scaled(R.top, R.bottom, ChosenPoint.y)

\* C12 witness: after a session with contacts at (100,100) and (900,400)
\* the override is {100,100,900,400}, and a report at (500,250) was mapped
\* with it to (32727, 32659) instead of the (32735, 32702) of the
\* descriptor's touch area.
C12_Witness ==
    /\ SplicedOp /\ out.sentinel /\ out.hDevice = "D3"
    /\ g_devices["D3"].hasOverride
    /\ g_devices["D3"].touchAreaOverride = MkRect(100, 100, 900, 400)
    /\ out.points = <<PM>>
    /\ t_injectedInput[out.thread].lLastX = 32727
    /\ t_injectedInput[out.thread].lLastY = 32659

----------------------------------------------------------------------------
(* Claims about the end-to-end scenario E1 (SpecCal).                       *)

\* The report of E1 (count 1, tip 1, id 1, x 500, y 250) was handled in
\* absolute mode for the one-slot touchpad of touch area {0,0,1000,500}
\* without override.
E1Op ==
    /\ InputOp /\ out.enabled /\ ~out.inCalibrationMode
    /\ out.hDevice = "D3" /\ out.ids = <<1>> /\ out.points = <<PM>>
    /\ ~g_devices["D3"].hasOverride

\* The host's procedure was invoked with the sentinel and a sentinel
\* retrieval returns the record whose coordinates are x, y.
E1Record(x, y) ==
    /\ out.ret = "chained" /\ out.callProc = StoredOriginal
    /\ out.callW = out.wParam /\ out.callL = MAGIC_HANDLE
    /\ Retrieved(out.thread).dwType = "MOUSE"
    /\ Retrieved(out.thread).usFlags = MOUSE_MOVE_ABSOLUTE
    /\ Retrieved(out.thread).lLastX = x
    /\ Retrieved(out.thread).lLastY = y

\* C13 as stated: the report of E1 gives lLastX = 32751 and lLastY = 32735.
C13_E1Stated == E1Op => E1Record(32751, 32735)

\* C13 as the code has it: the report of E1 gives a synthetic mouse record
\* with MOUSE_MOVE_ABSOLUTE, lLastX = (500 << 16) / 1001 = 32735 and
\* lLastY = (250 << 16) / 501 = 32702; the host's procedure is invoked with
\* the sentinel lParam and a sentinel retrieval returns that record.
C13_E1 ==
    /\ E1Op => E1Record(32735, 32702)
    /\ (out.op = "GetRawInputData" /\ out.copied) => out.data = t_injectedInput[out.thread]

\* C13 witness: the host retrieved the record of E1 with the sentinel.
C13_Witness ==
    /\ out.op = "GetRawInputData" /\ out.copied
    /\ ~g_devices["D3"].hasOverride
    /\ out.data.usFlags = MOUSE_MOVE_ABSOLUTE
    /\ out.data.lLastX = 32735 /\ out.data.lLastY = 32702

----------------------------------------------------------------------------
(* Claims about the persistence of the calibration (SpecFile).              *)

LoadOp ==
    out.op = "WndProc" /\ out.message = "WM_HOTKEY" /\ out.wParam = HOTKEY_LOAD_ID
SaveOp ==
    out.op = "WndProc" /\ out.message = "WM_HOTKEY" /\ out.wParam = HOTKEY_SAVE_ID

\* The lines of a file whose key is one of the four bounds.
KnownLines(lines) ==
    SelectSeq(lines, LAMBDA l : l.key \in {"LEFT", "TOP", "RIGHT", "BOTTOM"})

\* The text "LEFT 10 / TOP 20 / RIGHT 1200 / BOTTOM 800".
ExampleText ==
    << [key |-> "LEFT", value |-> [neg |-> FALSE, digits |-> <<1, 0>>]],
       [key |-> "TOP", value |-> [neg |-> FALSE, digits |-> <<2, 0>>]],
       [key |-> "RIGHT", value |-> [neg |-> FALSE, digits |-> <<1, 2, 0, 0>>]],
       [key |-> "BOTTOM", value |-> [neg |-> FALSE, digits |-> <<8, 0, 0>>]] >>

\* C16: a Save hotkey that completes writes the override of the most recent
\* device as four lines; a Load hotkey that finds the file as Save left it
\* leaves the override equal to the saved four values; and a Load of a file
\* that holds the bounds {10,20,1200,800} and lines of unknown keys gives
\* the override {10,20,1200,800}: the unknown keys change no bound.
C16_RoundTrip ==
    /\ (SaveOp /\ saved.set /\ out.exc = NoExc /\ "calFile" \in out.changed) =>
          /\ saved.rect = g_devices[g_lastDevice].touchAreaOverride
          /\ Len(calFile.lines) = 4
          /\ saved.rect = MkRect(10, 20, 1200, 800) => calFile.lines = ExampleText
    /\ (LoadOp /\ out.exc = NoExc /\ calFile.exists) =>
          /\ g_lastDevice \in DOMAIN g_devices
          /\ g_devices[g_lastDevice].hasOverride
          /\ saved.set => g_devices[g_lastDevice].touchAreaOverride = saved.rect
          /\ KnownLines(calFile.lines) = ExampleText =>
                g_devices[g_lastDevice].touchAreaOverride = MkRect(10, 20, 1200, 800)

\* C16 witness: the override {10,20,1200,800}, loaded from a file with a
\* line of an unknown key, was saved and loaded again.
C16_Witness ==
    /\ LoadOp /\ out.exc = NoExc
    /\ saved.set /\ saved.rect = MkRect(10, 20, 1200, 800)
    /\ calFile.lines = ExampleText
    /\ g_devices[g_lastDevice].touchAreaOverride = MkRect(10, 20, 1200, 800)

----------------------------------------------------------------------------
(* Claims about the coordinate mapper (SpecMap).                            *)

MapOp == out.op = "AT_TouchpadToScreen"

\* C14: for every rectangle with left <= right and top <= bottom and every
\* point, both coordinates AT_TouchpadToScreen returns lie in [0, 65535].
C14_Range ==
    (MapOp /\ ~out.fault /\ out.rect.left <= out.rect.right
           /\ out.rect.top <= out.rect.bottom) =>
        /\ out.x \in 0..65535
        /\ out.y \in 0..65535

\* lo..hi has at most 32768 elements.
Narrow(lo, hi) ==
    /\ lo <= hi
    /\ IF lo < 0 /\ hi >= 0 THEN lo > -32768 /\ hi < 32768 /\ hi - lo < 32768
       ELSE hi - lo < 32768

----------------------------------------------------------------------------
(* Claims about the thread-local state (SpecRid).                           *)

\* C19: handling a WM_INPUT on one UI thread changes no other thread's
\* sticky primary id, synthetic record or accumulators; on every thread the
\* sticky id and the record a sentinel retrieval returns are those of the
\* thread's own last forwarded report (the zero-initialised values if the
\* thread has forwarded none), whatever the other threads handled.
C19_ThreadLocal ==
    /\ InputOp => out.others = {}
    /\ \A t \in Threads :
          IF lastSpliced[t] = NoMsg
          THEN /\ t_primaryContactID[t] = 0
               /\ Retrieved(t) = ZeroInput
          ELSE /\ t_primaryContactID[t] = lastPrimary[t][lastSpliced[t].hDevice]
               /\ Retrieved(t).hDevice = lastSpliced[t].hDevice
               /\ Retrieved(t).wParam = lastSpliced[t].wParam

\* C19 witness: T2 has forwarded a background report after T1 forwarded a
\* foreground report; T1 still retrieves its own record.
C19_Witness ==
    /\ InputOp /\ out.thread = "T2" /\ out.sentinel /\ out.ret = "chained"
    /\ lastSpliced["T1"] = [hDevice |-> "D1", wParam |-> RIM_INPUT]
    /\ lastSpliced["T2"] = [hDevice |-> "D1", wParam |-> RIM_INPUTSINK]
    /\ Retrieved("T1").wParam = RIM_INPUT
    /\ Retrieved("T2").wParam = RIM_INPUTSINK

----------------------------------------------------------------------------
(* Claims about the shared device cache (SpecRace).                         *)

\* C20: the check-parse-insert of AT_GetDeviceInfo of one thread is not
\* interleaved with that of another thread: no two threads are between the
\* test and the insertion at once, every device is inserted once, and the
\* element a thread holds a reference to is never assigned to by another
\* thread.
C20_Exclusive ==
    /\ Cardinality({t \in Threads : gdi.at[t] = "parsing"}) <= 1
    /\ \A d \in Touchpads : gdi.inserts[d] <= 1
    /\ \A t \in Threads : ~gdi.clobbered[t]
    /\ pc # "crashed"

----------------------------------------------------------------------------
(* Claims about the device cache (SpecParse).                               *)

\* A HID WM_INPUT reached AT_HandleRawInput.
HidOp == InputOp /\ (out.enabled \/ out.inCalibrationMode) /\ out.dwType = "HID"

\* The device of the last report was parsed and inserted by it.
Inserted ==
    /\ out.hDevice \notin DOMAIN out.devicesBefore
    /\ out.hDevice \in DOMAIN g_devices

\* C21: every entry of the device cache is the result of a complete parse;
\* a report whose descriptor parsing fails (the preparsed data cannot be
\* read, the capabilities cannot be enumerated, there is no contact-count
\* usage) leaves the cache as it was; and whatever failed before, a report
\* of an uncached device parses the descriptor again: it inserts the device
\* if nothing fails, and fails again for a descriptor without contact count.
C21_Atomic ==
    /\ \A d \in DOMAIN g_devices :
          \E o \in AT_GetDeviceInfo(EmptyMap, d, "none") :
              /\ o.exc = NoExc
              /\ g_devices[d].linkContactCount = o.devices[d].linkContactCount
              /\ g_devices[d].contactInfo = o.devices[d].contactInfo
    /\ HidOp =>
          /\ (out.fail \in {"preparsed", "caps"} /\ out.hDevice \notin DOMAIN out.devicesBefore) =>
                /\ out.caught # NoExc
                /\ g_devices = out.devicesBefore
          /\ (out.fail = "none" /\ ~ParseCaps(out.hDevice).hasCount) =>
                /\ out.caught = "runtime_error"
                /\ g_devices = out.devicesBefore
          /\ (out.fail = "none" /\ ParseCaps(out.hDevice).hasCount) =>
                /\ out.hDevice \in DOMAIN g_devices
                /\ \A d \in DOMAIN out.devicesBefore :
                      d \in DOMAIN g_devices /\ g_devices[d] = out.devicesBefore[d]

\* C21 witness: a report of D1 inserted the device although the most recent
\* device was D1 already: an earlier report of D1 had failed in parsing.
C21_Witness ==
    /\ HidOp /\ out.hDevice = "D1" /\ Inserted
    /\ out.lastDeviceBefore = "D1"
    /\ Len(g_devices["D1"].contactInfo) = 2

\* Descriptor d declares the value usage (page, usage) in link collection l
\* as a single absolute usage.
DeclaresValue(d, page, usage, l) ==
    \E i \in DOMAIN ValueCaps(d) :
        LET cap == ValueCaps(d)[i]
        IN  /\ cap.UsagePage = page /\ cap.Usage = usage /\ cap.LinkCollection = l
            /\ ~cap.IsRange /\ cap.IsAbsolute

DeclaresTip(d, l) ==
    \E i \in DOMAIN ButtonCaps(d) :
        ButtonCaps(d)[i] = BCap("DIGITIZER", "TIP_SWITCH", l)

\* The link collections of d that carry ContactId, TipSwitch, X and Y.
CompleteLinks(d) ==
    {l \in Links : /\ DeclaresValue(d, "DIGITIZER", "CONTACT_ID", l)
                   /\ DeclaresTip(d, l)
                   /\ DeclaresValue(d, "GENERIC", "X", l)
                   /\ DeclaresValue(d, "GENERIC", "Y", l)}

\* (X.PhysicalMin, Y.PhysicalMin, X.PhysicalMax, Y.PhysicalMax) of link l.
DeclaredArea(d, l) ==
    LET Cap(usage) == ValueCaps(d)[CHOOSE i \in DOMAIN ValueCaps(d) :
                         LET cap == ValueCaps(d)[i]
                         IN  /\ cap.UsagePage = "GENERIC" /\ cap.Usage = usage
                             /\ cap.LinkCollection = l /\ ~cap.IsRange /\ cap.IsAbsolute]
    IN  MkRect(Cap("X").PhysicalMin, Cap("Y").PhysicalMin,
               Cap("X").PhysicalMax, Cap("Y").PhysicalMax)

DeclaresCount(d) == \E l \in Links : DeclaresValue(d, "DIGITIZER", "CONTACT_COUNT", l)

\* C22: the contact slots of every cached device are exactly its link
\* collections that carry ContactId, TipSwitch, absolute X and absolute Y,
\* one slot each, with the touch area (X.PhysicalMin, Y.PhysicalMin,
\* X.PhysicalMax, Y.PhysicalMax): two slots for D1, one for D2 whose link 2
\* has no tip switch; a device whose descriptor has no contact-count usage
\* is never cached and every report of it fails in parsing.
C22_Parser ==
    /\ \A d \in DOMAIN g_devices :
          LET info == g_devices[d].contactInfo IN
          /\ DeclaresCount(d)
          /\ {info[i].link : i \in DOMAIN info} = CompleteLinks(d)
          /\ Len(info) = Cardinality(CompleteLinks(d))
          /\ \A i \in DOMAIN info : info[i].touchArea = DeclaredArea(d, info[i].link)
    /\ "D1" \in DOMAIN g_devices => Len(g_devices["D1"].contactInfo) = 2
    /\ "D2" \in DOMAIN g_devices =>
          g_devices["D2"].contactInfo = <<[link |-> 1, touchArea |-> MkRect(0, 0, 1000, 1000)]>>
    /\ (HidOp /\ out.fail = "none") =>
          IF DeclaresCount(out.hDevice) THEN out.hDevice \in DOMAIN g_devices
          ELSE out.hDevice \notin DOMAIN g_devices /\ out.caught = "runtime_error"

\* C22 witness: the two-slot touchpad and the touchpad whose second link
\* has no tip switch are cached, and a report of the touchpad without
\* contact count has just failed.
C22_Witness ==
    /\ HidOp /\ out.hDevice = "DB" /\ out.caught = "runtime_error"
    /\ {"D1", "D2"} \subseteq DOMAIN g_devices
    /\ Len(g_devices["D1"].contactInfo) = 2
    /\ Len(g_devices["D2"].contactInfo) = 1

\* The position at which the capability enumeration of d first meets link
\* collection l with a usage of a contact slot (value capabilities first,
\* then button capabilities); 0 if it never does.
FirstSeen(d, l) ==
    LET inValue == {i \in DOMAIN ValueCaps(d) :
                      LET cap == ValueCaps(d)[i]
                      IN  /\ cap.LinkCollection = l /\ ~cap.IsRange /\ cap.IsAbsolute
                          /\ \/ cap.UsagePage = "GENERIC" /\ cap.Usage \in {"X", "Y"}
                             \/ cap.UsagePage = "DIGITIZER" /\ cap.Usage = "CONTACT_ID"}
        inButton == {i \in DOMAIN ButtonCaps(d) :
                       ButtonCaps(d)[i] = BCap("DIGITIZER", "TIP_SWITCH", l)}
    IN  IF inValue # {} THEN SetMin(inValue)
        ELSE IF inButton # {} THEN Len(ValueCaps(d)) + SetMin(inButton)
        ELSE 0

\* C23: the contact slots of every cached device are listed in the order
\* in which their link collections were first met during the capability
\* enumeration.
C23_SlotOrder ==
    \A d \in DOMAIN g_devices :
        LET info == g_devices[d].contactInfo
        IN  \A i, j \in DOMAIN info :
                i < j => FirstSeen(d, info[i].link) < FirstSeen(d, info[j].link)

\* C27: in every state the most recent device is unset or a key of the
\* device cache.
C27_LastDeviceCached ==
    g_lastDevice = nullptr \/ g_lastDevice \in DOMAIN g_devices

----------------------------------------------------------------------------
(* Claims about the decoder (SpecDecode).                                   *)

\* A HID report of a cached device was decoded: the buffer held a HID
\* report and no OS or HID call failed.
DecodeOp ==
    /\ HidOp /\ out.fail = "none" /\ out.input.dwCount > 0
    /\ out.hDevice \in DOMAIN out.devicesBefore

\* The slots of the device of the last report, and what the report holds
\* for slot i.
SlotInfo == out.devicesBefore[out.hDevice].contactInfo
SlotOf(i) == out.input.slots[SlotInfo[i].link]
\* The number of slots the decoder is to read.
SlotsRead == Min(out.input.numContacts, Len(SlotInfo))

\* C24: the decoder emits one contact, with the slot's id and point, for
\* each slot i < min(reported count, contactInfo.size()) whose tip switch
\* is pressed, in slot order, and none for the other slots; a report with
\* count 3 whose tip switches are 0, 1, 0 in slot order emits exactly one
\* contact, the one of the second slot.
C24_TipGating ==
    DecodeOp =>
        LET pressed == SelectSeq([i \in 1..SlotsRead |-> SlotOf(i)], LAMBDA s : s.tip)
        IN  /\ out.exc = NoExc /\ out.caught = NoExc
            /\ out.ids = [i \in DOMAIN pressed |-> pressed[i].id]
            /\ out.points = [i \in DOMAIN pressed |-> MkPoint(pressed[i].x, pressed[i].y)]
            /\ (/\ out.input.numContacts = 3 /\ Len(SlotInfo) = 3
                /\ ~SlotOf(1).tip /\ SlotOf(2).tip /\ ~SlotOf(3).tip) =>
                  out.ids = <<SlotOf(2).id>>

\* C24 witness: a report of the three-slot touchpad with count 3 and the
\* tip switches 0, 1, 0 was forwarded with its single contact.
C24_Witness ==
    /\ DecodeOp /\ out.hDevice = "D4" /\ out.input.numContacts = 3
    /\ ~SlotOf(1).tip /\ SlotOf(2).tip /\ ~SlotOf(3).tip
    /\ Len(out.ids) = 1 /\ out.sentinel

\* C25: the decoder reads min(reported count, contactInfo.size()) slots:
\* every emitted contact comes from one of these slots and every pressed
\* one of them is emitted; a count above the number of slots causes no
\* error, and no report gives more contacts than the device has slots (a
\* report with count 5 of a two-slot device gives at most 2).
C25_CountClamp ==
    DecodeOp =>
        /\ out.exc = NoExc /\ out.caught = NoExc
        /\ {out.ids[i] : i \in DOMAIN out.ids}
              = {SlotOf(i).id : i \in {j \in 1..SlotsRead : SlotOf(j).tip}}
        /\ Len(out.ids) <= SlotsRead
        /\ Len(out.ids) <= Len(SlotInfo)
        /\ out.input.numContacts > Len(SlotInfo) => SlotsRead = Len(SlotInfo)

\* C25 witness: a report with count 5 of the two-slot touchpad, both tip
\* switches pressed, was forwarded with two contacts.
C25_Witness ==
    /\ DecodeOp /\ out.hDevice = "D1" /\ out.input.numContacts = 5
    /\ Len(SlotInfo) = 2 /\ Len(out.ids) = 2
    /\ out.exc = NoExc /\ out.caught = NoExc /\ out.sentinel

\* The last report, of a cached device, holds no HID report or no pressed
\* tip switch in the slots the decoder reads.
NoTip ==
    /\ out.hDevice \in DOMAIN g_devices
    /\ LET info == g_devices[out.hDevice].contactInfo
       IN  \/ out.input.dwCount = 0
           \/ \A i \in 1..Min(out.input.numContacts, Len(info)) :
                  ~out.input.slots[info[i].link].tip

\* C26: while the shim is engaged, a HID WM_INPUT that is decoded without
\* failure and holds no pressed contact (all fingers lifted, or no HID
\* report in the buffer) is handled locally: the procedure returns 0, calls
\* no procedure of the host, and leaves the synthetic record and the sticky
\* primary id as they were.
C26_NoContact ==
    (HidOp /\ out.exc = NoExc /\ out.caught = NoExc /\ NoTip) =>
        /\ out.ret = "zero"
        /\ out.callProc = NoProc
        /\ ~out.sentinel
        /\ out.ids = <<>>
        /\ out.changed \cap {"t_injectedInput", "t_primaryContactID"} = {}

\* C26 witness: in absolute mode, after a report had been spliced, a raw
\* input without HID report was swallowed; the record is still the spliced
\* one.
C26_Witness ==
    /\ HidOp /\ out.enabled /\ ~out.inCalibrationMode
    /\ out.input.dwCount = 0 /\ out.exc = NoExc /\ out.caught = NoExc
    /\ out.ret = "zero" /\ out.callProc = NoProc
    /\ lastSpliced[out.thread] # NoMsg
    /\ Retrieved(out.thread).usFlags = MOUSE_MOVE_ABSOLUTE

----------------------------------------------------------------------------
(* Claims about what a calibration session commits.                         *)

\* The bounding box of a non-empty set of points.
BBox(S) ==
    MkRect(SetMin({p.x : p \in S}), SetMin({p.y : p \in S}),
           SetMax({p.x : p \in S}), SetMax({p.y : p \in S}))

\* The calibration hotkey was handled in calibration mode and returned.
ExitOp == ToggleOp /\ out.inCalibrationMode /\ out.exc = NoExc

\* Leaving calibration mode gave every device that reported contacts during
\* the session the bounding box of these contacts as override, and left
\* every other device as it was.
ExactCommit ==
    /\ \A d \in DOMAIN out.session :
          /\ d \in DOMAIN g_devices
          /\ g_devices[d].hasOverride
          /\ g_devices[d].touchAreaOverride = BBox(out.session[d])
    /\ \A d \in DOMAIN g_devices \ DOMAIN out.session :
          d \in DOMAIN out.devicesBefore /\ g_devices[d] = out.devicesBefore[d]

\* C28: on one UI thread, whatever was done before (Load hotkeys, earlier
\* sessions), the override committed on leaving calibration mode is exactly
\* the bounding box of the points the device reported during the session,
\* and a device without reports in the session keeps its override.
C28_Exact == (ExitOp /\ out.thread = "T1") => ExactCommit

\* C29: in_calibration is process-wide: when the calibration hotkey is
\* handled on one UI thread while in calibration mode, the points every
\* thread accumulated during the session are committed (each device gets
\* the bounding box of what it reported, to whichever thread), and no
\* thread keeps an accumulator that would enter a later session.
C29_CrossThread ==
    ExitOp =>
        /\ ExactCommit
        /\ \A t \in Threads : t_calibrationArea[t] = EmptyMap

\* C30: a Save hotkey handled while the most recent device is unset, is
\* not in the cache or has no override leaves the calibration file as it
\* was.
C30_SaveKeepsFile ==
    (SaveOp /\ \/ out.lastDeviceBefore = nullptr
               \/ out.lastDeviceBefore \notin DOMAIN out.devicesBefore
               \/ ~out.devicesBefore[out.lastDeviceBefore].hasOverride) =>
        "calFile" \notin out.changed

----------------------------------------------------------------------------
(* SpecArea: the rectangles the mapper is given, on one UI thread with the  *)
(* one-slot touchpad D3.  The user enables the filter, calibrates with      *)
(* contacts at PA and PB, loads, and replaces the calibration file.         *)

\* Files the user puts in place of atcalibration.conf: the four bounds
\* {10, 20, 9, 800}, whose RIGHT is one less than LEFT; a file with LEFT
\* alone; a file with RIGHT alone, one less than LONG_MAX.
AreaFiles ==
    { << Line("LEFT", 10), Line("TOP", 20), Line("RIGHT", 9), Line("BOTTOM", 800) >>,
      << Line("LEFT", 10) >>,
      << Line("RIGHT", LONG_MAX - 1) >> }

NextArea ==
    \/ \E commitOK \in BOOLEAN : ProcessAttach(<<"D3">>, commitOK)
    \/ CreateWindow(1, "P1")
    \/ \E id \in {HOTKEY_ENABLE_ID, HOTKEY_CALIBRATION_ID, HOTKEY_LOAD_ID} :
          WndProc(1, "WM_HOTKEY", id, 0, NoRawInput, "none", TRUE)
    \/ \E p \in {PA, PB} :
          WndProc(1, "WM_INPUT", RIM_INPUT, RealHandle,
                  HidInput("D3", 1, 1, Touch(1, p), Up), "none", TRUE)
    \/ \E lines \in AreaFiles : EditFile(lines)

SpecArea == Init /\ [][NextArea]_vars

----------------------------------------------------------------------------
(* Claims about the rectangles that reach the mapper (SpecArea).           *)

\* A HID report went through AT_GetPrimaryContact and AT_TouchpadToScreen
\* (atdll.cpp:789-792): the filter was not calibrating and a contact was
\* chosen.
MapperReached ==
    /\ out.op = "WndProc" /\ out.message = "WM_INPUT"
    /\ ~out.inCalibrationMode /\ out.chosen # -1

\* The rectangles AT_GetTouchArea can give for a contact of device dev: the
\* override if there is one, else the touch area of one of its slots.
EffectiveRects(dev) ==
    IF dev.hasOverride THEN {dev.touchAreaOverride}
    ELSE {dev.contactInfo[i].touchArea : i \in DOMAIN dev.contactInfo}

\* tpWidth and tpHeight of atdll.cpp:443-444 in LONG.
tpWidth(R) == Sub32(Add32(R.right, 1), R.left)
tpHeight(R) == Sub32(Add32(R.bottom, 1), R.top)

\* C31: whenever a report reaches AT_TouchpadToScreen, the effective touch
\* rectangle of its device (the descriptor touch area, or the override a
\* calibration exit or a Load of the calibration file left) has
\* right + 1 - left # 0 and bottom + 1 - top # 0 in LONG, and the mapping
\* does not raise the divide error.
C31_NoDivideByZero ==
    MapperReached =>
        /\ \A R \in EffectiveRects(g_devices[out.hDevice]) :
              tpWidth(R) # 0 /\ tpHeight(R) # 0
        /\ out.exc # "divide_error"

----------------------------------------------------------------------------
(* Claims about the process attach (SpecParse).                             *)

AttachOp == out.op = "DllMain" /\ out.reason = "attach"

\* The touchpads of the list whose descriptor has no contact count.
Unparsable(list) == {list[i] : i \in {j \in DOMAIN list : ~ParseCaps(list[j]).hasCount}}

\* The enumeration of the attach met a failure: an OS or HID call failed,
\* or a touchpad of the list cannot be parsed.
EnumerationFailed ==
    \/ out.fail = "list"
    \/ out.fail \in {"info", "preparsed", "caps"} /\ out.list # <<>>
    \/ Unparsable(out.list) # {}

\* C32: a process attach whose device enumeration meets a touchpad without
\* contact count or a failing OS query, and whose Detours transaction
\* commits, ends with the five interceptions installed and the process
\* running; the touchpads that cannot be parsed are not in the cache.
C32_AttachRobust ==
    (AttachOp /\ out.commitOK /\ EnumerationFailed) =>
        /\ pc = "running" /\ detours
        /\ out.exc = NoExc
        /\ Unparsable(out.list) \cap DOMAIN g_devices = {}

====
